---------------------------- MODULE Spec2Model ----------------------------
(***************************************************************************)
(* SHA-256 engine of hashes/src/sha256.rs: the streaming HashEngine, the   *)
(* Midstate type, from_engine (finalization), the const path               *)
(* compute_midstate_unoptimized / hash_unoptimized / hash_tag, and the two *)
(* block compressions (software_process_block and the x86 SHA-NI one).     *)
(*                                                                         *)
(* Data representation.  TLC integers are 32-bit signed, so a u32 is the   *)
(* pair <<hi, lo>> of its two 16-bit halves (value hi * 65536 + lo); every *)
(* operation on it is exact modulo 2^32.  A u8 is a number in 0..255, a    *)
(* byte array a sequence of them, and a Rust index i is the TLA+ index     *)
(* i + 1.  A u64 byte count is a natural number (the counts of the model   *)
(* stay far below 2^31).                                                   *)
(***************************************************************************)
EXTENDS Integers, Sequences, FiniteSets, TLC

VARIABLES
  cpu,    \* the target and the CPU features is_x86_feature_detected! reports
  e,      \* the HashEngine under test: [buffer, h, bytes_hashed]
  fed,    \* every byte passed to e.input so far, in order
  last,   \* the last call made on e and what it returned
  cst,    \* the last call of a Midstate / const-path function and its result
  blk     \* the last block compressed by both compression routines

vars == <<cpu, e, fed, last, cst, blk>>

(***************************************************************************)
(* Bounds of the model.                                                    *)
(***************************************************************************)
\* the most bytes the streaming engine is fed
MaxFed == 130
\* the longest input handed to hash_unoptimized (tests::hash_unoptimized: 0..=256)
MaxConstLen == 256
\* the longest input handed to compute_midstate_unoptimized directly
MaxMidstateLen == 130
\* the largest byte count handed to Midstate::new
MaxCount == 130
\* the most blocks compressed in a row by both compression routines
MaxBlocks == 3
\* input calls made on an engine whose counter is kept at its width
MaxInputs == 2
\* the most bytes fed to an engine before its twin is made, and the input
\* calls made on the pair
MaxStaleFed == 128
MaxTwinInputs == 1

(***************************************************************************)
(* 32-bit words and bytes.                                                 *)
(***************************************************************************)
\* applies F to the value of x, x evaluated first (keeps TLC's evaluation flat)
\* the element of a one-element set; {f(v) : v \in {x}} evaluates x once
Only(S) == CHOOSE y \in S : TRUE

Min(a, b) == IF a < b THEN a ELSE b

RECURSIVE BitAnd(_, _)
BitAnd(a, b) ==
  IF a = 0 \/ b = 0 THEN 0
  ELSE ((a % 2) * (b % 2)) + (2 * BitAnd(a \div 2, b \div 2))

\* bitwise AND of two bytes, tabulated
AndTab == [i \in 0..255 |-> [j \in 0..255 |-> BitAnd(i, j)]]

And16(a, b) ==
  (AndTab[a \div 256][b \div 256] * 256) + AndTab[a % 256][b % 256]
Xor16(a, b) == (a + b) - (2 * And16(a, b))
Or16(a, b) == (a + b) - And16(a, b)

\* u32 & u32, u32 ^ u32, u32 | u32
And32(x, y) == <<And16(x[1], y[1]), And16(x[2], y[2])>>
Xor32(x, y) == <<Xor16(x[1], y[1]), Xor16(x[2], y[2])>>
Or32(x, y) == <<Or16(x[1], y[1]), Or16(x[2], y[2])>>

\* u32::wrapping_add
wrapping_add(x, y) ==
  LET lo == x[2] + y[2]
  IN <<(x[1] + y[1] + (lo \div 65536)) % 65536, lo % 65536>>

\* rotation of both halves by n < 16 bits to the left
RotL16(x, n) ==
  IF n = 0 THEN x
  ELSE <<((x[1] * (2 ^ n)) % 65536) + (x[2] \div (2 ^ (16 - n))),
         ((x[2] * (2 ^ n)) % 65536) + (x[1] \div (2 ^ (16 - n)))>>

\* u32::rotate_left(n), 0 <= n < 32
rotate_left(x, n) ==
  IF n < 16 THEN RotL16(x, n) ELSE RotL16(<<x[2], x[1]>>, n - 16)

\* u32 >> n, 0 < n < 16
Shr(x, n) ==
  <<x[1] \div (2 ^ n), (x[2] \div (2 ^ n)) + ((x[1] % (2 ^ n)) * (2 ^ (16 - n)))>>

\* u32::from_be_bytes and u32::to_be_bytes
from_be_bytes(b) == <<(b[1] * 256) + b[2], (b[3] * 256) + b[4]>>
to_be_bytes(x) == <<x[1] \div 256, x[1] % 256, x[2] \div 256, x[2] % 256>>

\* u64::to_be_bytes of a count below 2^31
RECURSIVE to_be_bytes_u64_from(_, _)
to_be_bytes_u64_from(x, k) ==
  IF k = 0 THEN <<>> ELSE to_be_bytes_u64_from(x \div 256, k - 1) \o <<x % 256>>
to_be_bytes_u64(x) == to_be_bytes_u64_from(x, 8)

\* [b; n]
Repeat(b, n) == [i \in 1..n |-> b]

\* the concatenation of the big-endian encodings of the words of ws
RECURSIVE WordsToBytes(_)
WordsToBytes(ws) ==
  IF ws = <<>> THEN <<>> ELSE to_be_bytes(Head(ws)) \o WordsToBytes(Tail(ws))

(***************************************************************************)
(* The SHA-256 functions, lines 252-261.                                   *)
(***************************************************************************)
\* Ch without the inner xor: VectorCorrectness tells it from Ch
Ch_and(x, y, z) == Xor32(z, And32(x, y))

Ch(x, y, z) == Xor32(z, And32(x, Xor32(y, z)))
Maj(x, y, z) == Or32(And32(x, y), And32(z, Or32(x, y)))
\* Sigma0 with the first rotation off by one bit: a faulty scalar path, which
\* ScalarShaniEquivalence tells from the SHA-NI path
Sigma0_rot29(x) == Xor32(Xor32(rotate_left(x, 29), rotate_left(x, 19)), rotate_left(x, 10))

Sigma0(x) == Xor32(Xor32(rotate_left(x, 30), rotate_left(x, 19)), rotate_left(x, 10))
Sigma1(x) == Xor32(Xor32(rotate_left(x, 26), rotate_left(x, 21)), rotate_left(x, 7))
sigma0(x) == Xor32(Xor32(rotate_left(x, 25), rotate_left(x, 14)), Shr(x, 3))
\* sigma1 with rotate_left(x, 14) for rotate_left(x, 13): ScalarConformsToFips
\* tells it from sigma1
sigma1_rot14(x) == Xor32(Xor32(rotate_left(x, 15), rotate_left(x, 14)), Shr(x, 10))

sigma1(x) == Xor32(Xor32(rotate_left(x, 15), rotate_left(x, 13)), Shr(x, 10))

(***************************************************************************)
(* The round! macro of the default build (mod fast_hash).  The first form  *)
(* assigns $d and $h, returned here as <<d, h>>; the later form first      *)
(* reassigns $w and returns <<d, h, w>>.                                   *)
(***************************************************************************)
round(a, b, c, d, ee, f, g, h, k, w) ==
  Only({<<wrapping_add(d, t1), wrapping_add(t1, t2)>> :
          t1 \in {wrapping_add(wrapping_add(wrapping_add(wrapping_add(h, Sigma1(ee)),
                                                         Ch(ee, f, g)), k), w)},
          t2 \in {wrapping_add(Sigma0(a), Maj(a, b, c))}})

later_round(a, b, c, d, ee, f, g, h, k, w, w1, w2, w3) ==
  Only({round(a, b, c, d, ee, f, g, h, k, wn) \o <<wn>> :
          wn \in {wrapping_add(wrapping_add(wrapping_add(w, sigma1(w1)), w2), sigma0(w3))}})

(***************************************************************************)
(* The 64 round! invocations of a compression, one row per source line:    *)
(* the eight variables passed as $a..$h (1 = a, 2 = b, ... 8 = h), the     *)
(* round constant, the index of $w and, in the later form, of $w1, $w2 and *)
(* $w3 (w[i] of the source is index i + 1).                                *)
(***************************************************************************)
software_rounds == <<
  <<1, 2, 3, 4, 5, 6, 7, 8, <<\h428a, \h2f98>>, 1>>,
  <<8, 1, 2, 3, 4, 5, 6, 7, <<\h7137, \h4491>>, 2>>,
  <<7, 8, 1, 2, 3, 4, 5, 6, <<\hb5c0, \hfbcf>>, 3>>,
  <<6, 7, 8, 1, 2, 3, 4, 5, <<\he9b5, \hdba5>>, 4>>,
  <<5, 6, 7, 8, 1, 2, 3, 4, <<\h3956, \hc25b>>, 5>>,
  <<4, 5, 6, 7, 8, 1, 2, 3, <<\h59f1, \h11f1>>, 6>>,
  <<3, 4, 5, 6, 7, 8, 1, 2, <<\h923f, \h82a4>>, 7>>,
  <<2, 3, 4, 5, 6, 7, 8, 1, <<\hab1c, \h5ed5>>, 8>>,
  <<1, 2, 3, 4, 5, 6, 7, 8, <<\hd807, \haa98>>, 9>>,
  <<8, 1, 2, 3, 4, 5, 6, 7, <<\h1283, \h5b01>>, 10>>,
  <<7, 8, 1, 2, 3, 4, 5, 6, <<\h2431, \h85be>>, 11>>,
  <<6, 7, 8, 1, 2, 3, 4, 5, <<\h550c, \h7dc3>>, 12>>,
  <<5, 6, 7, 8, 1, 2, 3, 4, <<\h72be, \h5d74>>, 13>>,
  <<4, 5, 6, 7, 8, 1, 2, 3, <<\h80de, \hb1fe>>, 14>>,
  <<3, 4, 5, 6, 7, 8, 1, 2, <<\h9bdc, \h06a7>>, 15>>,
  <<2, 3, 4, 5, 6, 7, 8, 1, <<\hc19b, \hf174>>, 16>>,
  <<1, 2, 3, 4, 5, 6, 7, 8, <<\he49b, \h69c1>>, 1, 15, 10, 2>>,
  <<8, 1, 2, 3, 4, 5, 6, 7, <<\hefbe, \h4786>>, 2, 16, 11, 3>>,
  <<7, 8, 1, 2, 3, 4, 5, 6, <<\h0fc1, \h9dc6>>, 3, 1, 12, 4>>,
  <<6, 7, 8, 1, 2, 3, 4, 5, <<\h240c, \ha1cc>>, 4, 2, 13, 5>>,
  <<5, 6, 7, 8, 1, 2, 3, 4, <<\h2de9, \h2c6f>>, 5, 3, 14, 6>>,
  <<4, 5, 6, 7, 8, 1, 2, 3, <<\h4a74, \h84aa>>, 6, 4, 15, 7>>,
  <<3, 4, 5, 6, 7, 8, 1, 2, <<\h5cb0, \ha9dc>>, 7, 5, 16, 8>>,
  <<2, 3, 4, 5, 6, 7, 8, 1, <<\h76f9, \h88da>>, 8, 6, 1, 9>>,
  <<1, 2, 3, 4, 5, 6, 7, 8, <<\h983e, \h5152>>, 9, 7, 2, 10>>,
  <<8, 1, 2, 3, 4, 5, 6, 7, <<\ha831, \hc66d>>, 10, 8, 3, 11>>,
  <<7, 8, 1, 2, 3, 4, 5, 6, <<\hb003, \h27c8>>, 11, 9, 4, 12>>,
  <<6, 7, 8, 1, 2, 3, 4, 5, <<\hbf59, \h7fc7>>, 12, 10, 5, 13>>,
  <<5, 6, 7, 8, 1, 2, 3, 4, <<\hc6e0, \h0bf3>>, 13, 11, 6, 14>>,
  <<4, 5, 6, 7, 8, 1, 2, 3, <<\hd5a7, \h9147>>, 14, 12, 7, 15>>,
  <<3, 4, 5, 6, 7, 8, 1, 2, <<\h06ca, \h6351>>, 15, 13, 8, 16>>,
  <<2, 3, 4, 5, 6, 7, 8, 1, <<\h1429, \h2967>>, 16, 14, 9, 1>>,
  <<1, 2, 3, 4, 5, 6, 7, 8, <<\h27b7, \h0a85>>, 1, 15, 10, 2>>,
  <<8, 1, 2, 3, 4, 5, 6, 7, <<\h2e1b, \h2138>>, 2, 16, 11, 3>>,
  <<7, 8, 1, 2, 3, 4, 5, 6, <<\h4d2c, \h6dfc>>, 3, 1, 12, 4>>,
  <<6, 7, 8, 1, 2, 3, 4, 5, <<\h5338, \h0d13>>, 4, 2, 13, 5>>,
  <<5, 6, 7, 8, 1, 2, 3, 4, <<\h650a, \h7354>>, 5, 3, 14, 6>>,
  <<4, 5, 6, 7, 8, 1, 2, 3, <<\h766a, \h0abb>>, 6, 4, 15, 7>>,
  <<3, 4, 5, 6, 7, 8, 1, 2, <<\h81c2, \hc92e>>, 7, 5, 16, 8>>,
  <<2, 3, 4, 5, 6, 7, 8, 1, <<\h9272, \h2c85>>, 8, 6, 1, 9>>,
  <<1, 2, 3, 4, 5, 6, 7, 8, <<\ha2bf, \he8a1>>, 9, 7, 2, 10>>,
  <<8, 1, 2, 3, 4, 5, 6, 7, <<\ha81a, \h664b>>, 10, 8, 3, 11>>,
  <<7, 8, 1, 2, 3, 4, 5, 6, <<\hc24b, \h8b70>>, 11, 9, 4, 12>>,
  <<6, 7, 8, 1, 2, 3, 4, 5, <<\hc76c, \h51a3>>, 12, 10, 5, 13>>,
  <<5, 6, 7, 8, 1, 2, 3, 4, <<\hd192, \he819>>, 13, 11, 6, 14>>,
  <<4, 5, 6, 7, 8, 1, 2, 3, <<\hd699, \h0624>>, 14, 12, 7, 15>>,
  <<3, 4, 5, 6, 7, 8, 1, 2, <<\hf40e, \h3585>>, 15, 13, 8, 16>>,
  <<2, 3, 4, 5, 6, 7, 8, 1, <<\h106a, \ha070>>, 16, 14, 9, 1>>,
  <<1, 2, 3, 4, 5, 6, 7, 8, <<\h19a4, \hc116>>, 1, 15, 10, 2>>,
  <<8, 1, 2, 3, 4, 5, 6, 7, <<\h1e37, \h6c08>>, 2, 16, 11, 3>>,
  <<7, 8, 1, 2, 3, 4, 5, 6, <<\h2748, \h774c>>, 3, 1, 12, 4>>,
  <<6, 7, 8, 1, 2, 3, 4, 5, <<\h34b0, \hbcb5>>, 4, 2, 13, 5>>,
  <<5, 6, 7, 8, 1, 2, 3, 4, <<\h391c, \h0cb3>>, 5, 3, 14, 6>>,
  <<4, 5, 6, 7, 8, 1, 2, 3, <<\h4ed8, \haa4a>>, 6, 4, 15, 7>>,
  <<3, 4, 5, 6, 7, 8, 1, 2, <<\h5b9c, \hca4f>>, 7, 5, 16, 8>>,
  <<2, 3, 4, 5, 6, 7, 8, 1, <<\h682e, \h6ff3>>, 8, 6, 1, 9>>,
  <<1, 2, 3, 4, 5, 6, 7, 8, <<\h748f, \h82ee>>, 9, 7, 2, 10>>,
  <<8, 1, 2, 3, 4, 5, 6, 7, <<\h78a5, \h636f>>, 10, 8, 3, 11>>,
  <<7, 8, 1, 2, 3, 4, 5, 6, <<\h84c8, \h7814>>, 11, 9, 4, 12>>,
  <<6, 7, 8, 1, 2, 3, 4, 5, <<\h8cc7, \h0208>>, 12, 10, 5, 13>>,
  <<5, 6, 7, 8, 1, 2, 3, 4, <<\h90be, \hfffa>>, 13, 11, 6, 14>>,
  <<4, 5, 6, 7, 8, 1, 2, 3, <<\ha450, \h6ceb>>, 14, 12, 7, 15>>,
  <<3, 4, 5, 6, 7, 8, 1, 2, <<\hbef9, \ha3f7>>, 15, 13, 8, 16>>,
  <<2, 3, 4, 5, 6, 7, 8, 1, <<\hc671, \h78f2>>, 16, 14, 9, 1>>
>>

const_rounds == <<
  <<1, 2, 3, 4, 5, 6, 7, 8, <<\h428a, \h2f98>>, 1>>,
  <<8, 1, 2, 3, 4, 5, 6, 7, <<\h7137, \h4491>>, 2>>,
  <<7, 8, 1, 2, 3, 4, 5, 6, <<\hb5c0, \hfbcf>>, 3>>,
  <<6, 7, 8, 1, 2, 3, 4, 5, <<\he9b5, \hdba5>>, 4>>,
  <<5, 6, 7, 8, 1, 2, 3, 4, <<\h3956, \hc25b>>, 5>>,
  <<4, 5, 6, 7, 8, 1, 2, 3, <<\h59f1, \h11f1>>, 6>>,
  <<3, 4, 5, 6, 7, 8, 1, 2, <<\h923f, \h82a4>>, 7>>,
  <<2, 3, 4, 5, 6, 7, 8, 1, <<\hab1c, \h5ed5>>, 8>>,
  <<1, 2, 3, 4, 5, 6, 7, 8, <<\hd807, \haa98>>, 9>>,
  <<8, 1, 2, 3, 4, 5, 6, 7, <<\h1283, \h5b01>>, 10>>,
  <<7, 8, 1, 2, 3, 4, 5, 6, <<\h2431, \h85be>>, 11>>,
  <<6, 7, 8, 1, 2, 3, 4, 5, <<\h550c, \h7dc3>>, 12>>,
  <<5, 6, 7, 8, 1, 2, 3, 4, <<\h72be, \h5d74>>, 13>>,
  <<4, 5, 6, 7, 8, 1, 2, 3, <<\h80de, \hb1fe>>, 14>>,
  <<3, 4, 5, 6, 7, 8, 1, 2, <<\h9bdc, \h06a7>>, 15>>,
  <<2, 3, 4, 5, 6, 7, 8, 1, <<\hc19b, \hf174>>, 16>>,
  <<1, 2, 3, 4, 5, 6, 7, 8, <<\he49b, \h69c1>>, 1, 15, 10, 2>>,
  <<8, 1, 2, 3, 4, 5, 6, 7, <<\hefbe, \h4786>>, 2, 16, 11, 3>>,
  <<7, 8, 1, 2, 3, 4, 5, 6, <<\h0fc1, \h9dc6>>, 3, 1, 12, 4>>,
  <<6, 7, 8, 1, 2, 3, 4, 5, <<\h240c, \ha1cc>>, 4, 2, 13, 5>>,
  <<5, 6, 7, 8, 1, 2, 3, 4, <<\h2de9, \h2c6f>>, 5, 3, 14, 6>>,
  <<4, 5, 6, 7, 8, 1, 2, 3, <<\h4a74, \h84aa>>, 6, 4, 15, 7>>,
  <<3, 4, 5, 6, 7, 8, 1, 2, <<\h5cb0, \ha9dc>>, 7, 5, 16, 8>>,
  <<2, 3, 4, 5, 6, 7, 8, 1, <<\h76f9, \h88da>>, 8, 6, 1, 9>>,
  <<1, 2, 3, 4, 5, 6, 7, 8, <<\h983e, \h5152>>, 9, 7, 2, 10>>,
  <<8, 1, 2, 3, 4, 5, 6, 7, <<\ha831, \hc66d>>, 10, 8, 3, 11>>,
  <<7, 8, 1, 2, 3, 4, 5, 6, <<\hb003, \h27c8>>, 11, 9, 4, 12>>,
  <<6, 7, 8, 1, 2, 3, 4, 5, <<\hbf59, \h7fc7>>, 12, 10, 5, 13>>,
  <<5, 6, 7, 8, 1, 2, 3, 4, <<\hc6e0, \h0bf3>>, 13, 11, 6, 14>>,
  <<4, 5, 6, 7, 8, 1, 2, 3, <<\hd5a7, \h9147>>, 14, 12, 7, 15>>,
  <<3, 4, 5, 6, 7, 8, 1, 2, <<\h06ca, \h6351>>, 15, 13, 8, 16>>,
  <<2, 3, 4, 5, 6, 7, 8, 1, <<\h1429, \h2967>>, 16, 14, 9, 1>>,
  <<1, 2, 3, 4, 5, 6, 7, 8, <<\h27b7, \h0a85>>, 1, 15, 10, 2>>,
  <<8, 1, 2, 3, 4, 5, 6, 7, <<\h2e1b, \h2138>>, 2, 16, 11, 3>>,
  <<7, 8, 1, 2, 3, 4, 5, 6, <<\h4d2c, \h6dfc>>, 3, 1, 12, 4>>,
  <<6, 7, 8, 1, 2, 3, 4, 5, <<\h5338, \h0d13>>, 4, 2, 13, 5>>,
  <<5, 6, 7, 8, 1, 2, 3, 4, <<\h650a, \h7354>>, 5, 3, 14, 6>>,
  <<4, 5, 6, 7, 8, 1, 2, 3, <<\h766a, \h0abb>>, 6, 4, 15, 7>>,
  <<3, 4, 5, 6, 7, 8, 1, 2, <<\h81c2, \hc92e>>, 7, 5, 16, 8>>,
  <<2, 3, 4, 5, 6, 7, 8, 1, <<\h9272, \h2c85>>, 8, 6, 1, 9>>,
  <<1, 2, 3, 4, 5, 6, 7, 8, <<\ha2bf, \he8a1>>, 9, 7, 2, 10>>,
  <<8, 1, 2, 3, 4, 5, 6, 7, <<\ha81a, \h664b>>, 10, 8, 3, 11>>,
  <<7, 8, 1, 2, 3, 4, 5, 6, <<\hc24b, \h8b70>>, 11, 9, 4, 12>>,
  <<6, 7, 8, 1, 2, 3, 4, 5, <<\hc76c, \h51a3>>, 12, 10, 5, 13>>,
  <<5, 6, 7, 8, 1, 2, 3, 4, <<\hd192, \he819>>, 13, 11, 6, 14>>,
  <<4, 5, 6, 7, 8, 1, 2, 3, <<\hd699, \h0624>>, 14, 12, 7, 15>>,
  <<3, 4, 5, 6, 7, 8, 1, 2, <<\hf40e, \h3585>>, 15, 13, 8, 16>>,
  <<2, 3, 4, 5, 6, 7, 8, 1, <<\h106a, \ha070>>, 16, 14, 9, 1>>,
  <<1, 2, 3, 4, 5, 6, 7, 8, <<\h19a4, \hc116>>, 1, 15, 10, 2>>,
  <<8, 1, 2, 3, 4, 5, 6, 7, <<\h1e37, \h6c08>>, 2, 16, 11, 3>>,
  <<7, 8, 1, 2, 3, 4, 5, 6, <<\h2748, \h774c>>, 3, 1, 12, 4>>,
  <<6, 7, 8, 1, 2, 3, 4, 5, <<\h34b0, \hbcb5>>, 4, 2, 13, 5>>,
  <<5, 6, 7, 8, 1, 2, 3, 4, <<\h391c, \h0cb3>>, 5, 3, 14, 6>>,
  <<4, 5, 6, 7, 8, 1, 2, 3, <<\h4ed8, \haa4a>>, 6, 4, 15, 7>>,
  <<3, 4, 5, 6, 7, 8, 1, 2, <<\h5b9c, \hca4f>>, 7, 5, 16, 8>>,
  <<2, 3, 4, 5, 6, 7, 8, 1, <<\h682e, \h6ff3>>, 8, 6, 1, 9>>,
  <<1, 2, 3, 4, 5, 6, 7, 8, <<\h748f, \h82ee>>, 9, 7, 2, 10>>,
  <<8, 1, 2, 3, 4, 5, 6, 7, <<\h78a5, \h636f>>, 10, 8, 3, 11>>,
  <<7, 8, 1, 2, 3, 4, 5, 6, <<\h84c8, \h7814>>, 11, 9, 4, 12>>,
  <<6, 7, 8, 1, 2, 3, 4, 5, <<\h8cc7, \h0208>>, 12, 10, 5, 13>>,
  <<5, 6, 7, 8, 1, 2, 3, 4, <<\h90be, \hfffa>>, 13, 11, 6, 14>>,
  <<4, 5, 6, 7, 8, 1, 2, 3, <<\ha450, \h6ceb>>, 14, 12, 7, 15>>,
  <<3, 4, 5, 6, 7, 8, 1, 2, <<\hbef9, \ha3f7>>, 15, 13, 8, 16>>,
  <<2, 3, 4, 5, 6, 7, 8, 1, <<\hc671, \h78f2>>, 16, 14, 9, 1>>
>>

\* one round! invocation on the variables v (a..h) and the schedule w
RunRound(vw, row) ==
  LET v == vw[1]
      w == vw[2]
  IN IF Len(row) = 10
     THEN Only({<<[v EXCEPT ![row[4]] = u[1], ![row[8]] = u[2]], w>> :
                  u \in {round(v[row[1]], v[row[2]], v[row[3]], v[row[4]], v[row[5]],
                               v[row[6]], v[row[7]], v[row[8]], row[9], w[row[10]])}})
     ELSE Only({<<[v EXCEPT ![row[4]] = u[1], ![row[8]] = u[2]],
                  [w EXCEPT ![row[10]] = u[3]]>> :
                  u \in {later_round(v[row[1]], v[row[2]], v[row[3]], v[row[4]], v[row[5]],
                                     v[row[6]], v[row[7]], v[row[8]], row[9], w[row[10]],
                                     w[row[11]], w[row[12]], w[row[13]])}})

\* the invocations rows[from .. from + n - 1], in order
RECURSIVE RunRounds(_, _, _, _)
RunRounds(vw, rows, from, n) ==
  IF n = 1 THEN RunRound(vw, rows[from])
  ELSE LET half == n \div 2
       IN Only({RunRounds(x, rows, from + half, n - half) :
                  x \in {RunRounds(vw, rows, from, half)}})

\* a..h initialised from state, the rounds, then state[i].wrapping_add(..)
Compress(state, w, rows) ==
  LET v == RunRounds(<<state, w>>, rows, 1, Len(rows))[1]
  IN [i \in 1..8 |-> wrapping_add(state[i], v[i])]

(***************************************************************************)
(* The build with feature = "small-hash" (mod small_hash, lines 263-301):  *)
(* round and later_round are functions that return the new values, and the *)
(* round! macro assigns updates.0 to $d, updates.1 to $h and, in the later *)
(* form, updates.2 to $w.                                                  *)
(***************************************************************************)
\* small_hash::round that returns (h, d) for (d, h): BuildVariantEquivalence
\* tells it from small_hash_round
small_hash_round_swapped(a, b, c, d, ee, f, g, h, k, w) ==
  LET t1 == wrapping_add(wrapping_add(wrapping_add(wrapping_add(h, Sigma1(ee)),
                                                   Ch(ee, f, g)), k), w)
      t2 == wrapping_add(Sigma0(a), Maj(a, b, c))
  IN Only({<<wrapping_add(x, y), wrapping_add(d, x)>> : x \in {t1}, y \in {t2}})

small_hash_round(a, b, c, d, ee, f, g, h, k, w) ==
  LET t1 == wrapping_add(wrapping_add(wrapping_add(wrapping_add(h, Sigma1(ee)),
                                                   Ch(ee, f, g)), k), w)
      t2 == wrapping_add(Sigma0(a), Maj(a, b, c))
  IN Only({<<wrapping_add(d, x), wrapping_add(x, y)>> : x \in {t1}, y \in {t2}})

small_hash_later_round(a, b, c, d, ee, f, g, h, k, w, w1, w2, w3) ==
  Only({Only({<<dh[1], dh[2], wn>> :
                dh \in {small_hash_round(a, b, c, d, ee, f, g, h, k, wn)}}) :
          wn \in {wrapping_add(wrapping_add(wrapping_add(w, sigma1(w1)), w2), sigma0(w3))}})

\* one round! invocation of mod small_hash on the variables v and the schedule w
small_hash_RunRound(vw, row) ==
  LET v == vw[1]
      w == vw[2]
  IN IF Len(row) = 10
     THEN Only({<<[v EXCEPT ![row[4]] = updates[1], ![row[8]] = updates[2]], w>> :
                  updates \in {small_hash_round(v[row[1]], v[row[2]], v[row[3]], v[row[4]],
                                                v[row[5]], v[row[6]], v[row[7]], v[row[8]],
                                                row[9], w[row[10]])}})
     ELSE Only({<<[v EXCEPT ![row[4]] = updates[1], ![row[8]] = updates[2]],
                  [w EXCEPT ![row[10]] = updates[3]]>> :
                  updates \in {small_hash_later_round(v[row[1]], v[row[2]], v[row[3]],
                                                      v[row[4]], v[row[5]], v[row[6]],
                                                      v[row[7]], v[row[8]], row[9],
                                                      w[row[10]], w[row[11]], w[row[12]],
                                                      w[row[13]])}})

RECURSIVE small_hash_RunRounds(_, _, _, _)
small_hash_RunRounds(vw, rows, from, n) ==
  IF n = 1 THEN small_hash_RunRound(vw, rows[from])
  ELSE LET half == n \div 2
       IN Only({small_hash_RunRounds(x, rows, from + half, n - half) :
                  x \in {small_hash_RunRounds(vw, rows, from, half)}})

\* a compression of the small-hash build: the same invocations, the other macro
small_hash_Compress(state, w, rows) ==
  LET v == small_hash_RunRounds(<<state, w>>, rows, 1, Len(rows))[1]
  IN [i \in 1..8 |-> wrapping_add(state[i], v[i])]

(***************************************************************************)
(* HashEngine, lines 54-136.                                               *)
(***************************************************************************)
BLOCK_SIZE == 64

IV == << <<\h6a09, \he667>>, <<\hbb67, \hae85>>, <<\h3c6e, \hf372>>, <<\ha54f, \hf53a>>,
         <<\h510e, \h527f>>, <<\h9b05, \h688c>>, <<\h1f83, \hd9ab>>, <<\h5be0, \hcd19>> >>

new == [h |-> IV, bytes_hashed |-> 0, buffer |-> Repeat(0, BLOCK_SIZE)]

software_process_block(eng) ==
  LET w == [i \in 1..16 |-> from_be_bytes(SubSeq(eng.buffer, (4 * i) - 3, 4 * i))]
  IN [eng EXCEPT !.h = Compress(eng.h, w, software_rounds)]

\* software_process_block of the small-hash build
small_hash_software_process_block(eng) ==
  LET w == [i \in 1..16 |-> from_be_bytes(SubSeq(eng.buffer, (4 * i) - 3, 4 * i))]
  IN [eng EXCEPT !.h = small_hash_Compress(eng.h, w, software_rounds)]

(***************************************************************************)
(* process_block_simd_x86_intrinsics, lines 507-764.  A __m128i is the     *)
(* sequence of its four 32-bit lanes, lowest first (x[1] is bits 31:0).    *)
(* The intrinsics are modelled by their definitions in the Intel           *)
(* instruction set reference; the SHA instructions use the FIPS 180-4      *)
(* functions below, not the helpers of this file.                          *)
(***************************************************************************)
Not32(x) == <<65535 - x[1], 65535 - x[2]>>

\* x rotated right by n bits, 0 < n < 32, as (x >> n) | (x << (32 - n))
ROR(x, n) ==
  LET y == IF n < 16 THEN x ELSE <<x[2], x[1]>>
      k == IF n < 16 THEN n ELSE n - 16
  IN IF k = 0 THEN y
     ELSE <<(y[1] \div (2 ^ k)) + ((y[2] % (2 ^ k)) * (2 ^ (16 - k))),
            (y[2] \div (2 ^ k)) + ((y[1] % (2 ^ k)) * (2 ^ (16 - k)))>>

HwCh(x, y, z) == Xor32(And32(x, y), And32(Not32(x), z))
HwMaj(x, y, z) == Xor32(Xor32(And32(x, y), And32(x, z)), And32(y, z))
HwSum0(x) == Xor32(Xor32(ROR(x, 2), ROR(x, 13)), ROR(x, 22))
HwSum1(x) == Xor32(Xor32(ROR(x, 6), ROR(x, 11)), ROR(x, 25))
HwSig0(x) == Xor32(Xor32(ROR(x, 7), ROR(x, 18)), Shr(x, 3))
HwSig1(x) == Xor32(Xor32(ROR(x, 17), ROR(x, 19)), Shr(x, 10))

\* the 16 bytes of a vector, lowest first, and back
VecBytes(x) ==
  [j \in 1..16 |->
     LET w == x[((j - 1) \div 4) + 1]
         k == (j - 1) % 4
     IN IF k = 0 THEN w[2] % 256
        ELSE IF k = 1 THEN w[2] \div 256
        ELSE IF k = 2 THEN w[1] % 256
        ELSE w[1] \div 256]
BytesVec(b) ==
  [i \in 1..4 |-> <<(b[4 * i] * 256) + b[(4 * i) - 1], (b[(4 * i) - 2] * 256) + b[(4 * i) - 3]>>]

\* _mm_set_epi64x(e1, e0), each 64-bit argument written as four 16-bit digits
mm_set_epi64x(e1, e0) ==
  << <<e0[3], e0[4]>>, <<e0[1], e0[2]>>, <<e1[3], e1[4]>>, <<e1[1], e1[2]>> >>

mm_add_epi32(a, b) == [i \in 1..4 |-> wrapping_add(a[i], b[i])]

mm_shuffle_epi32(a, imm) == [i \in 1..4 |-> a[((imm \div (4 ^ (i - 1))) % 4) + 1]]

mm_shuffle_epi8(a, b) ==
  LET ab == VecBytes(a)
      bb == VecBytes(b)
  IN BytesVec([j \in 1..16 |-> IF bb[j] >= 128 THEN 0 ELSE ab[(bb[j] % 16) + 1]])

mm_alignr_epi8(a, b, imm) ==
  LET cat == VecBytes(b) \o VecBytes(a)
  IN BytesVec([j \in 1..16 |-> IF j + imm <= 32 THEN cat[j + imm] ELSE 0])

mm_blend_epi16(a, b, imm) ==
  LET Pick(j) == IF (imm \div (2 ^ j)) % 2 = 1 THEN b ELSE a
  IN [i \in 1..4 |-> <<Pick((2 * i) - 1)[i][1], Pick((2 * i) - 2)[i][2]>>]

\* one round of SHA256RNDS2 on <<A, B, C, D, E, F, G, H>> with WK
HwRound(s, wk) ==
  Only({<<wrapping_add(wrapping_add(t, HwMaj(s[1], s[2], s[3])), HwSum0(s[1])),
          s[1], s[2], s[3], wrapping_add(t, s[4]), s[5], s[6], s[7]>> :
          t \in {wrapping_add(wrapping_add(wrapping_add(HwCh(s[5], s[6], s[7]), HwSum1(s[5])),
                                           wk), s[8])}})

mm_sha256rnds2_epu32(a, b, k) ==
  LET s0 == <<b[4], b[3], a[4], a[3], b[2], b[1], a[2], a[1]>>
  IN Only({<<s2[6], s2[5], s2[2], s2[1]>> : s2 \in {HwRound(HwRound(s0, k[1]), k[2])}})

mm_sha256msg1_epu32(a, b) ==
  <<wrapping_add(a[1], HwSig0(a[2])), wrapping_add(a[2], HwSig0(a[3])),
    wrapping_add(a[3], HwSig0(a[4])), wrapping_add(a[4], HwSig0(b[1]))>>

mm_sha256msg2_epu32(a, b) ==
  Only({<<w16, w17, wrapping_add(a[3], HwSig1(w16)), wrapping_add(a[4], HwSig1(w17))>> :
          w16 \in {wrapping_add(a[1], HwSig1(b[3]))},
          w17 \in {wrapping_add(a[2], HwSig1(b[4]))}})

(***************************************************************************)
(* The statements of process_block_simd_x86_intrinsics, one row per        *)
(* statement: the variable assigned, the intrinsic, its arguments.         *)
(* loadu_h k reads self.h[k..k+4], loadu_buffer k reads                    *)
(* self.buffer[block_offset + k ..][..16] with block_offset = 0, storeu_h  *)
(* k writes self.h[k..k+4], add_epi32_set_epi64x is _mm_add_epi32 with a   *)
(* _mm_set_epi64x constant as its second argument.                         *)
(***************************************************************************)
simd_program == <<
  <<"MASK", "set_epi64x", <<\h0c0d, \h0e0f, \h0809, \h0a0b>>, <<\h0405, \h0607, \h0001, \h0203>>>>,
  <<"tmp", "loadu_h", 0>>,
  <<"state1", "loadu_h", 4>>,
  <<"tmp", "shuffle_epi32", "tmp", \hB1>>,
  <<"state1", "shuffle_epi32", "state1", \h1B>>,
  <<"state0", "alignr_epi8", "tmp", "state1", 8>>,
  <<"state1", "blend_epi16", "state1", "tmp", \hF0>>,
  <<"abef_save", "mov", "state0">>,
  <<"cdgh_save", "mov", "state1">>,
  <<"msg", "loadu_buffer", 0>>,
  <<"msg0", "shuffle_epi8", "msg", "MASK">>,
  <<"msg", "add_epi32_set_epi64x", "msg0", <<\hE9B5, \hDBA5, \hB5C0, \hFBCF>>, <<\h7137, \h4491, \h428A, \h2F98>>>>,
  <<"state1", "sha256rnds2_epu32", "state1", "state0", "msg">>,
  <<"msg", "shuffle_epi32", "msg", \h0E>>,
  <<"state0", "sha256rnds2_epu32", "state0", "state1", "msg">>,
  <<"msg1", "loadu_buffer", 16>>,
  <<"msg1", "shuffle_epi8", "msg1", "MASK">>,
  <<"msg", "add_epi32_set_epi64x", "msg1", <<\hAB1C, \h5ED5, \h923F, \h82A4>>, <<\h59F1, \h11F1, \h3956, \hC25B>>>>,
  <<"state1", "sha256rnds2_epu32", "state1", "state0", "msg">>,
  <<"msg", "shuffle_epi32", "msg", \h0E>>,
  <<"state0", "sha256rnds2_epu32", "state0", "state1", "msg">>,
  <<"msg0", "sha256msg1_epu32", "msg0", "msg1">>,
  <<"msg2", "loadu_buffer", 32>>,
  <<"msg2", "shuffle_epi8", "msg2", "MASK">>,
  <<"msg", "add_epi32_set_epi64x", "msg2", <<\h550C, \h7DC3, \h2431, \h85BE>>, <<\h1283, \h5B01, \hD807, \hAA98>>>>,
  <<"state1", "sha256rnds2_epu32", "state1", "state0", "msg">>,
  <<"msg", "shuffle_epi32", "msg", \h0E>>,
  <<"state0", "sha256rnds2_epu32", "state0", "state1", "msg">>,
  <<"msg1", "sha256msg1_epu32", "msg1", "msg2">>,
  <<"msg3", "loadu_buffer", 48>>,
  <<"msg3", "shuffle_epi8", "msg3", "MASK">>,
  <<"msg", "add_epi32_set_epi64x", "msg3", <<\hC19B, \hF174, \h9BDC, \h06A7>>, <<\h80DE, \hB1FE, \h72BE, \h5D74>>>>,
  <<"state1", "sha256rnds2_epu32", "state1", "state0", "msg">>,
  <<"tmp", "alignr_epi8", "msg3", "msg2", 4>>,
  <<"msg0", "add_epi32", "msg0", "tmp">>,
  <<"msg0", "sha256msg2_epu32", "msg0", "msg3">>,
  <<"msg", "shuffle_epi32", "msg", \h0E>>,
  <<"state0", "sha256rnds2_epu32", "state0", "state1", "msg">>,
  <<"msg2", "sha256msg1_epu32", "msg2", "msg3">>,
  <<"msg", "add_epi32_set_epi64x", "msg0", <<\h240C, \hA1CC, \h0FC1, \h9DC6>>, <<\hEFBE, \h4786, \hE49B, \h69C1>>>>,
  <<"state1", "sha256rnds2_epu32", "state1", "state0", "msg">>,
  <<"tmp", "alignr_epi8", "msg0", "msg3", 4>>,
  <<"msg1", "add_epi32", "msg1", "tmp">>,
  <<"msg1", "sha256msg2_epu32", "msg1", "msg0">>,
  <<"msg", "shuffle_epi32", "msg", \h0E>>,
  <<"state0", "sha256rnds2_epu32", "state0", "state1", "msg">>,
  <<"msg3", "sha256msg1_epu32", "msg3", "msg0">>,
  <<"msg", "add_epi32_set_epi64x", "msg1", <<\h76F9, \h88DA, \h5CB0, \hA9DC>>, <<\h4A74, \h84AA, \h2DE9, \h2C6F>>>>,
  <<"state1", "sha256rnds2_epu32", "state1", "state0", "msg">>,
  <<"tmp", "alignr_epi8", "msg1", "msg0", 4>>,
  <<"msg2", "add_epi32", "msg2", "tmp">>,
  <<"msg2", "sha256msg2_epu32", "msg2", "msg1">>,
  <<"msg", "shuffle_epi32", "msg", \h0E>>,
  <<"state0", "sha256rnds2_epu32", "state0", "state1", "msg">>,
  <<"msg0", "sha256msg1_epu32", "msg0", "msg1">>,
  <<"msg", "add_epi32_set_epi64x", "msg2", <<\hBF59, \h7FC7, \hB003, \h27C8>>, <<\hA831, \hC66D, \h983E, \h5152>>>>,
  <<"state1", "sha256rnds2_epu32", "state1", "state0", "msg">>,
  <<"tmp", "alignr_epi8", "msg2", "msg1", 4>>,
  <<"msg3", "add_epi32", "msg3", "tmp">>,
  <<"msg3", "sha256msg2_epu32", "msg3", "msg2">>,
  <<"msg", "shuffle_epi32", "msg", \h0E>>,
  <<"state0", "sha256rnds2_epu32", "state0", "state1", "msg">>,
  <<"msg1", "sha256msg1_epu32", "msg1", "msg2">>,
  <<"msg", "add_epi32_set_epi64x", "msg3", <<\h1429, \h2967, \h06CA, \h6351>>, <<\hD5A7, \h9147, \hC6E0, \h0BF3>>>>,
  <<"state1", "sha256rnds2_epu32", "state1", "state0", "msg">>,
  <<"tmp", "alignr_epi8", "msg3", "msg2", 4>>,
  <<"msg0", "add_epi32", "msg0", "tmp">>,
  <<"msg0", "sha256msg2_epu32", "msg0", "msg3">>,
  <<"msg", "shuffle_epi32", "msg", \h0E>>,
  <<"state0", "sha256rnds2_epu32", "state0", "state1", "msg">>,
  <<"msg2", "sha256msg1_epu32", "msg2", "msg3">>,
  <<"msg", "add_epi32_set_epi64x", "msg0", <<\h5338, \h0D13, \h4D2C, \h6DFC>>, <<\h2E1B, \h2138, \h27B7, \h0A85>>>>,
  <<"state1", "sha256rnds2_epu32", "state1", "state0", "msg">>,
  <<"tmp", "alignr_epi8", "msg0", "msg3", 4>>,
  <<"msg1", "add_epi32", "msg1", "tmp">>,
  <<"msg1", "sha256msg2_epu32", "msg1", "msg0">>,
  <<"msg", "shuffle_epi32", "msg", \h0E>>,
  <<"state0", "sha256rnds2_epu32", "state0", "state1", "msg">>,
  <<"msg3", "sha256msg1_epu32", "msg3", "msg0">>,
  <<"msg", "add_epi32_set_epi64x", "msg1", <<\h9272, \h2C85, \h81C2, \hC92E>>, <<\h766A, \h0ABB, \h650A, \h7354>>>>,
  <<"state1", "sha256rnds2_epu32", "state1", "state0", "msg">>,
  <<"tmp", "alignr_epi8", "msg1", "msg0", 4>>,
  <<"msg2", "add_epi32", "msg2", "tmp">>,
  <<"msg2", "sha256msg2_epu32", "msg2", "msg1">>,
  <<"msg", "shuffle_epi32", "msg", \h0E>>,
  <<"state0", "sha256rnds2_epu32", "state0", "state1", "msg">>,
  <<"msg0", "sha256msg1_epu32", "msg0", "msg1">>,
  <<"msg", "add_epi32_set_epi64x", "msg2", <<\hC76C, \h51A3, \hC24B, \h8B70>>, <<\hA81A, \h664B, \hA2BF, \hE8A1>>>>,
  <<"state1", "sha256rnds2_epu32", "state1", "state0", "msg">>,
  <<"tmp", "alignr_epi8", "msg2", "msg1", 4>>,
  <<"msg3", "add_epi32", "msg3", "tmp">>,
  <<"msg3", "sha256msg2_epu32", "msg3", "msg2">>,
  <<"msg", "shuffle_epi32", "msg", \h0E>>,
  <<"state0", "sha256rnds2_epu32", "state0", "state1", "msg">>,
  <<"msg1", "sha256msg1_epu32", "msg1", "msg2">>,
  <<"msg", "add_epi32_set_epi64x", "msg3", <<\h106A, \hA070, \hF40E, \h3585>>, <<\hD699, \h0624, \hD192, \hE819>>>>,
  <<"state1", "sha256rnds2_epu32", "state1", "state0", "msg">>,
  <<"tmp", "alignr_epi8", "msg3", "msg2", 4>>,
  <<"msg0", "add_epi32", "msg0", "tmp">>,
  <<"msg0", "sha256msg2_epu32", "msg0", "msg3">>,
  <<"msg", "shuffle_epi32", "msg", \h0E>>,
  <<"state0", "sha256rnds2_epu32", "state0", "state1", "msg">>,
  <<"msg2", "sha256msg1_epu32", "msg2", "msg3">>,
  <<"msg", "add_epi32_set_epi64x", "msg0", <<\h34B0, \hBCB5, \h2748, \h774C>>, <<\h1E37, \h6C08, \h19A4, \hC116>>>>,
  <<"state1", "sha256rnds2_epu32", "state1", "state0", "msg">>,
  <<"tmp", "alignr_epi8", "msg0", "msg3", 4>>,
  <<"msg1", "add_epi32", "msg1", "tmp">>,
  <<"msg1", "sha256msg2_epu32", "msg1", "msg0">>,
  <<"msg", "shuffle_epi32", "msg", \h0E>>,
  <<"state0", "sha256rnds2_epu32", "state0", "state1", "msg">>,
  <<"msg3", "sha256msg1_epu32", "msg3", "msg0">>,
  <<"msg", "add_epi32_set_epi64x", "msg1", <<\h682E, \h6FF3, \h5B9C, \hCA4F>>, <<\h4ED8, \hAA4A, \h391C, \h0CB3>>>>,
  <<"state1", "sha256rnds2_epu32", "state1", "state0", "msg">>,
  <<"tmp", "alignr_epi8", "msg1", "msg0", 4>>,
  <<"msg2", "add_epi32", "msg2", "tmp">>,
  <<"msg2", "sha256msg2_epu32", "msg2", "msg1">>,
  <<"msg", "shuffle_epi32", "msg", \h0E>>,
  <<"state0", "sha256rnds2_epu32", "state0", "state1", "msg">>,
  <<"msg", "add_epi32_set_epi64x", "msg2", <<\h8CC7, \h0208, \h84C8, \h7814>>, <<\h78A5, \h636F, \h748F, \h82EE>>>>,
  <<"state1", "sha256rnds2_epu32", "state1", "state0", "msg">>,
  <<"tmp", "alignr_epi8", "msg2", "msg1", 4>>,
  <<"msg3", "add_epi32", "msg3", "tmp">>,
  <<"msg3", "sha256msg2_epu32", "msg3", "msg2">>,
  <<"msg", "shuffle_epi32", "msg", \h0E>>,
  <<"state0", "sha256rnds2_epu32", "state0", "state1", "msg">>,
  <<"msg", "add_epi32_set_epi64x", "msg3", <<\hC671, \h78F2, \hBEF9, \hA3F7>>, <<\hA450, \h6CEB, \h90BE, \hFFFA>>>>,
  <<"state1", "sha256rnds2_epu32", "state1", "state0", "msg">>,
  <<"msg", "shuffle_epi32", "msg", \h0E>>,
  <<"state0", "sha256rnds2_epu32", "state0", "state1", "msg">>,
  <<"state0", "add_epi32", "state0", "abef_save">>,
  <<"state1", "add_epi32", "state1", "cdgh_save">>,
  <<"tmp", "shuffle_epi32", "state0", \h1B>>,
  <<"state1", "shuffle_epi32", "state1", \hB1>>,
  <<"state0", "blend_epi16", "tmp", "state1", \hF0>>,
  <<"state1", "alignr_epi8", "state1", "tmp", 8>>,
  <<"h", "storeu_h", 0, "state0">>,
  <<"h", "storeu_h", 4, "state1">>
>>

ZeroVec == << <<0, 0>>, <<0, 0>>, <<0, 0>>, <<0, 0>> >>

SimdRegisters ==
  {"MASK", "state0", "state1", "msg", "tmp", "msg0", "msg1", "msg2", "msg3",
   "abef_save", "cdgh_save"}

\* one statement on the machine m = [reg, h, buffer]
SimdExec(m, ins) ==
  LET op == ins[2]
      R(i) == m.reg[ins[i]]
      Set(v) == [m EXCEPT !.reg[ins[1]] = v]
  IN CASE op = "set_epi64x" -> Set(mm_set_epi64x(ins[3], ins[4]))
       [] op = "loadu_h" -> Set(SubSeq(m.h, ins[3] + 1, ins[3] + 4))
       [] op = "loadu_buffer" -> Set(BytesVec(SubSeq(m.buffer, ins[3] + 1, ins[3] + 16)))
       [] op = "mov" -> Set(R(3))
       [] op = "shuffle_epi32" -> Set(mm_shuffle_epi32(R(3), ins[4]))
       [] op = "shuffle_epi8" -> Set(mm_shuffle_epi8(R(3), R(4)))
       [] op = "alignr_epi8" -> Set(mm_alignr_epi8(R(3), R(4), ins[5]))
       [] op = "blend_epi16" -> Set(mm_blend_epi16(R(3), R(4), ins[5]))
       [] op = "add_epi32" -> Set(mm_add_epi32(R(3), R(4)))
       [] op = "add_epi32_set_epi64x" ->
            Set(mm_add_epi32(R(3), mm_set_epi64x(ins[4], ins[5])))
       [] op = "sha256rnds2_epu32" -> Set(mm_sha256rnds2_epu32(R(3), R(4), R(5)))
       [] op = "sha256msg1_epu32" -> Set(mm_sha256msg1_epu32(R(3), R(4)))
       [] op = "sha256msg2_epu32" -> Set(mm_sha256msg2_epu32(R(3), R(4)))
       [] op = "storeu_h" ->
            [m EXCEPT !.h = [i \in 1..8 |->
               IF i > ins[3] /\ i <= ins[3] + 4 THEN m.reg[ins[4]][i - ins[3]] ELSE @[i]]]

\* the statements prog[from .. from + n - 1], in order
RECURSIVE SimdRun(_, _, _, _)
SimdRun(m, prog, from, n) ==
  IF n = 1 THEN SimdExec(m, prog[from])
  ELSE LET half == n \div 2
       IN Only({SimdRun(x, prog, from + half, n - half) :
                  x \in {SimdRun(m, prog, from, half)}})

process_block_simd_x86_intrinsics(eng) ==
  LET m0 == [reg |-> [x \in SimdRegisters |-> ZeroVec], h |-> eng.h, buffer |-> eng.buffer]
  IN Only({[eng EXCEPT !.h = m1.h, !.buffer = m1.buffer] :
             m1 \in {SimdRun(m0, simd_program, 1, Len(simd_program))}})

(***************************************************************************)
(* process_block, lines 491-505.  c = [std, target_arch, features]: std is *)
(* feature = "std", target_arch the target_arch of the build, features the *)
(* set for which is_x86_feature_detected! is true on the machine.          *)
(* process_block_run also returns the routines called, in order.           *)
(***************************************************************************)
Features == {"sse4.1", "sha", "sse2", "ssse3"}

\* cfg(all(feature = "std", any(target_arch = "x86", target_arch = "x86_64")))
cfg_std_x86(c) == c.std /\ c.target_arch \in {"x86", "x86_64"}

\* process_block that asks for the sha feature only: CompressionDispatch tells
\* it from process_block_run
process_block_run_sha(eng, c) ==
  IF cfg_std_x86(c) /\ "sha" \in c.features
  THEN [eng |-> process_block_simd_x86_intrinsics(eng),
        calls |-> <<"process_block_simd_x86_intrinsics">>]
  ELSE [eng |-> software_process_block(eng), calls |-> <<"software_process_block">>]

process_block_run(eng, c) ==
  IF cfg_std_x86(c) /\ "sse4.1" \in c.features /\ "sha" \in c.features
                    /\ "sse2" \in c.features /\ "ssse3" \in c.features
  THEN [eng |-> process_block_simd_x86_intrinsics(eng),
        calls |-> <<"process_block_simd_x86_intrinsics">>]
  ELSE [eng |-> software_process_block(eng), calls |-> <<"software_process_block">>]

\* process_block that runs the chosen routine twice on the block:
\* EngineRepresentation tells it from process_block
process_block_twice(eng, c) ==
  IF cfg_std_x86(c) /\ "sse4.1" \in c.features /\ "sha" \in c.features
                    /\ "sse2" \in c.features /\ "ssse3" \in c.features
  THEN Only({process_block_simd_x86_intrinsics(x) :
               x \in {process_block_simd_x86_intrinsics(eng)}})
  ELSE Only({software_process_block(x) : x \in {software_process_block(eng)}})

process_block(eng, c) == process_block_run(eng, c).eng

(***************************************************************************)
(* crate::incomplete_block_len and the input method that                   *)
(* engine_input_impl!() expands to (line 135) are defined outside this     *)
(* file; they are modelled from the specification: bytes_hashed mod 64 is  *)
(* the number of valid bytes at the start of buffer; input copies bytes    *)
(* into the free region of buffer, compresses whenever the buffer becomes  *)
(* full, and advances bytes_hashed by the number of bytes taken.           *)
(***************************************************************************)
incomplete_block_len(eng) == eng.bytes_hashed % BLOCK_SIZE

\* input without the loop: whatever does not fit in the free region of buffer
\* is dropped.  ChunkInvariance tells it from input.
input_no_loop(eng, inp, c) ==
  IF Len(inp) = 0 THEN eng
  ELSE LET buf_idx == incomplete_block_len(eng)
           write_len == Min(BLOCK_SIZE - buf_idx, Len(inp))
           e1 == [eng EXCEPT
                    !.buffer = SubSeq(@, 1, buf_idx) \o SubSeq(inp, 1, write_len)
                                 \o SubSeq(@, buf_idx + write_len + 1, BLOCK_SIZE),
                    !.bytes_hashed = @ + write_len]
       IN IF incomplete_block_len(e1) = 0 THEN process_block(e1, c) ELSE e1

RECURSIVE input(_, _, _)
input(eng, inp, c) ==
  IF Len(inp) = 0 THEN eng
  ELSE LET buf_idx == incomplete_block_len(eng)
           rem_len == BLOCK_SIZE - buf_idx
           write_len == Min(rem_len, Len(inp))
           e1 == [eng EXCEPT
                    !.buffer = SubSeq(@, 1, buf_idx) \o SubSeq(inp, 1, write_len)
                                 \o SubSeq(@, buf_idx + write_len + 1, BLOCK_SIZE),
                    !.bytes_hashed = @ + write_len]
       IN Only({input(e2, SubSeq(inp, write_len + 1, Len(inp)), c) :
                  e2 \in {IF incomplete_block_len(e1) = 0 THEN process_block(e1, c) ELSE e1}})

\* for ch in bytes { engine.input(&[*ch]) } of tests::test
RECURSIVE input_each(_, _, _)
input_each(eng, bytes, c) ==
  IF Len(bytes) = 0 THEN eng
  ELSE Only({input_each(x, Tail(bytes), c) : x \in {input(eng, <<Head(bytes)>>, c)}})

\* n_bytes_hashed that reports the length of the incomplete block:
\* ByteAccounting tells it from n_bytes_hashed
n_bytes_hashed_mod(eng) == eng.bytes_hashed % BLOCK_SIZE

n_bytes_hashed(eng) == eng.bytes_hashed

\* from_midstate that restarts the count: MidstateRoundTrip tells it from from_midstate
from_midstate_count0(m) ==
  [buffer |-> Repeat(0, BLOCK_SIZE),
   h |-> [i \in 1..8 |-> from_be_bytes(SubSeq(m.bytes, (4 * i) - 3, 4 * i))],
   bytes_hashed |-> 0]

\* from_midstate that decodes each word with from_le_bytes:
\* SerializationRoundTrip tells it from from_midstate
from_midstate_le(m) ==
  [buffer |-> Repeat(0, BLOCK_SIZE),
   h |-> [i \in 1..8 |-> from_be_bytes(<<m.bytes[4 * i], m.bytes[(4 * i) - 1],
                                         m.bytes[(4 * i) - 2], m.bytes[(4 * i) - 3]>>)],
   bytes_hashed |-> m.bytes_hashed]

from_midstate(m) ==
  [buffer |-> Repeat(0, BLOCK_SIZE),
   h |-> [i \in 1..8 |-> from_be_bytes(SubSeq(m.bytes, (4 * i) - 3, 4 * i))],
   bytes_hashed |-> m.bytes_hashed]

\* a block boundary every 32 bytes: CanExtractIffAligned tells it from
\* can_extract_midstate
can_extract_midstate_32(eng) == eng.bytes_hashed % 32 = 0

can_extract_midstate(eng) == eng.bytes_hashed % 64 = 0

midstate_unchecked(eng) ==
  [bytes |-> WordsToBytes(eng.h), bytes_hashed |-> eng.bytes_hashed]

\* midstate whose error carries the length of the incomplete block, not the
\* count: MidstateErrorCarriesCount tells it from midstate
midstate_err_mod(eng) ==
  IF ~can_extract_midstate(eng)
  THEN [ok |-> FALSE, err |-> [invalid_n_bytes_hashed |-> eng.bytes_hashed % 64]]
  ELSE [ok |-> TRUE, val |-> midstate_unchecked(eng)]

\* Result<Midstate, MidstateError>
midstate(eng) ==
  IF ~can_extract_midstate(eng)
  THEN [ok |-> FALSE, err |-> [invalid_n_bytes_hashed |-> eng.bytes_hashed]]
  ELSE [ok |-> TRUE, val |-> midstate_unchecked(eng)]

(***************************************************************************)
(* from_engine (not(hashes_fuzz)), lines 23-41.  from_engine_run keeps the *)
(* engine after each e.input call and the bytes passed to them; the two    *)
(* debug_assert_eq! are the conditions at56 and at0.                       *)
(***************************************************************************)
\* from_engine with `>=` for `>` in the test of line 30: FinalizationPadding
\* tells it from from_engine_run
from_engine_run_ge(eng, c) ==
  LET n_bytes_hashed_ == eng.bytes_hashed
      zeroes == Repeat(0, BLOCK_SIZE - 8)
      len_bytes == to_be_bytes_u64(8 * n_bytes_hashed_)
  IN Only({
       LET more == incomplete_block_len(e1) >= Len(zeroes)
       IN Only({
            LET pad_length == Len(zeroes) - incomplete_block_len(e2)
            IN Only({
                 Only({[n_bytes_hashed |-> n_bytes_hashed_,
                        pad_length |-> pad_length,
                        padding |-> <<128>> \o (IF more THEN zeroes ELSE <<>>)
                                      \o SubSeq(zeroes, 1, pad_length) \o len_bytes,
                        at56 |-> incomplete_block_len(e3) = Len(zeroes),
                        at0 |-> incomplete_block_len(e4) = 0,
                        before_len |-> e3,
                        final |-> e4,
                        hash |-> midstate_unchecked(e4).bytes] :
                       e4 \in {input(e3, len_bytes, c)}}) :
                 e3 \in {input(e2, SubSeq(zeroes, 1, pad_length), c)}}) :
            e2 \in {IF more THEN input(e1, zeroes, c) ELSE e1}}) :
       e1 \in {input(eng, <<128>>, c)}})


\* from_engine without the `if` of lines 30-32: the block of zeroes is never
\* fed.  FromEngineAssertions tells it from from_engine_run
from_engine_run_no_if(eng, c) ==
  LET n_bytes_hashed_ == eng.bytes_hashed
      zeroes == Repeat(0, BLOCK_SIZE - 8)
      len_bytes == to_be_bytes_u64(8 * n_bytes_hashed_)
  IN Only({
       LET more == FALSE
       IN Only({
            LET pad_length == Len(zeroes) - incomplete_block_len(e2)
            IN Only({
                 Only({[n_bytes_hashed |-> n_bytes_hashed_,
                        pad_length |-> pad_length,
                        padding |-> <<128>> \o (IF more THEN zeroes ELSE <<>>)
                                      \o SubSeq(zeroes, 1, pad_length) \o len_bytes,
                        at56 |-> incomplete_block_len(e3) = Len(zeroes),
                        at0 |-> incomplete_block_len(e4) = 0,
                        before_len |-> e3,
                        final |-> e4,
                        hash |-> midstate_unchecked(e4).bytes] :
                       e4 \in {input(e3, len_bytes, c)}}) :
                 e3 \in {input(e2, SubSeq(zeroes, 1, pad_length), c)}}) :
            e2 \in {IF more THEN input(e1, zeroes, c) ELSE e1}}) :
       e1 \in {input(eng, <<128>>, c)}})

\* from_engine that writes the length of the bytes still in the buffer, not the
\* count: FinalizeResumedEngine tells it from from_engine_run
from_engine_run_tail(eng, c) ==
  LET n_bytes_hashed_ == incomplete_block_len(eng)
      zeroes == Repeat(0, BLOCK_SIZE - 8)
      len_bytes == to_be_bytes_u64(8 * n_bytes_hashed_)
  IN Only({
       LET more == incomplete_block_len(e1) > Len(zeroes)
       IN Only({
            LET pad_length == Len(zeroes) - incomplete_block_len(e2)
            IN Only({
                 Only({[n_bytes_hashed |-> n_bytes_hashed_,
                        pad_length |-> pad_length,
                        padding |-> <<128>> \o (IF more THEN zeroes ELSE <<>>)
                                      \o SubSeq(zeroes, 1, pad_length) \o len_bytes,
                        at56 |-> incomplete_block_len(e3) = Len(zeroes),
                        at0 |-> incomplete_block_len(e4) = 0,
                        before_len |-> e3,
                        final |-> e4,
                        hash |-> midstate_unchecked(e4).bytes] :
                       e4 \in {input(e3, len_bytes, c)}}) :
                 e3 \in {input(e2, SubSeq(zeroes, 1, pad_length), c)}}) :
            e2 \in {IF more THEN input(e1, zeroes, c) ELSE e1}}) :
       e1 \in {input(eng, <<128>>, c)}})

\* from_engine that pads by advancing the count, taking the bytes of the buffer
\* behind the 0x80 to be zero already: StaleBytesNotObservable tells it from
\* from_engine_run
from_engine_run_no_zero_fill(eng, c) ==
  LET n_bytes_hashed_ == eng.bytes_hashed
      zeroes == Repeat(0, BLOCK_SIZE - 8)
      len_bytes == to_be_bytes_u64(8 * n_bytes_hashed_)
  IN Only({
       LET more == incomplete_block_len(e1) > Len(zeroes)
       IN Only({
            LET pad_length == Len(zeroes) - incomplete_block_len(e2)
            IN Only({
                 Only({[n_bytes_hashed |-> n_bytes_hashed_,
                        pad_length |-> pad_length,
                        padding |-> <<128>> \o (IF more THEN zeroes ELSE <<>>)
                                      \o SubSeq(zeroes, 1, pad_length) \o len_bytes,
                        at56 |-> incomplete_block_len(e3) = Len(zeroes),
                        at0 |-> incomplete_block_len(e4) = 0,
                        before_len |-> e3,
                        final |-> e4,
                        hash |-> midstate_unchecked(e4).bytes] :
                       e4 \in {input(e3, len_bytes, c)}}) :
                 e3 \in {[e2 EXCEPT !.bytes_hashed = @ + pad_length]}}) :
            e2 \in {IF more THEN input(e1, zeroes, c) ELSE e1}}) :
       e1 \in {input(eng, <<128>>, c)}})

from_engine_run(eng, c) ==
  LET n_bytes_hashed_ == eng.bytes_hashed
      zeroes == Repeat(0, BLOCK_SIZE - 8)
      len_bytes == to_be_bytes_u64(8 * n_bytes_hashed_)
  IN Only({
       LET more == incomplete_block_len(e1) > Len(zeroes)
       IN Only({
            LET pad_length == Len(zeroes) - incomplete_block_len(e2)
            IN Only({
                 Only({[n_bytes_hashed |-> n_bytes_hashed_,
                        pad_length |-> pad_length,
                        padding |-> <<128>> \o (IF more THEN zeroes ELSE <<>>)
                                      \o SubSeq(zeroes, 1, pad_length) \o len_bytes,
                        at56 |-> incomplete_block_len(e3) = Len(zeroes),
                        at0 |-> incomplete_block_len(e4) = 0,
                        before_len |-> e3,
                        final |-> e4,
                        hash |-> midstate_unchecked(e4).bytes] :
                       e4 \in {input(e3, len_bytes, c)}}) :
                 e3 \in {input(e2, SubSeq(zeroes, 1, pad_length), c)}}) :
            e2 \in {IF more THEN input(e1, zeroes, c) ELSE e1}}) :
       e1 \in {input(eng, <<128>>, c)}})

from_engine(eng, c) == from_engine_run(eng, c).hash

\* Hash::hash: a fresh engine, one input, from_engine
hash(bytes, c) == from_engine(input(new, bytes, c), c)

(***************************************************************************)
(* Midstate and the const path, lines 172-217 and 322-488.                 *)
(***************************************************************************)
\* Midstate::new without the check: MidstateNewChecks tells it from Midstate_new
Midstate_new_unchecked(state, bytes_hashed) ==
  [panic |-> FALSE, val |-> [bytes |-> state, bytes_hashed |-> bytes_hashed]]

\* Midstate::new: the Midstate, or the panic
Midstate_new(state, bytes_hashed) ==
  IF bytes_hashed % 64 # 0
  THEN [panic |-> TRUE, msg |-> "bytes hashed is not a multiple of 64"]
  ELSE [panic |-> FALSE, val |-> [bytes |-> state, bytes_hashed |-> bytes_hashed]]

as_parts(m) == <<m.bytes, m.bytes_hashed>>
to_parts(m) == <<m.bytes, m.bytes_hashed>>

\* #[derive(Default)]
Midstate_default == [bytes |-> Repeat(0, 32), bytes_hashed |-> 0]

read_u32(bytes, index) ==
  <<(bytes[index + 1] * 256) + bytes[index + 2], (bytes[index + 3] * 256) + bytes[index + 4]>>

copy_w(bytes, index) == [i \in 1..16 |-> read_u32(bytes, index + ((i - 1) * 4))]

\* ((x >> 8 * k) & 0xFF) as u8 for a u64 x below 2^31
ShrByte(x, k) == IF k >= 4 THEN 0 ELSE (x \div (256 ^ k)) % 256

\* chunk_w with `<` for `<=` in the test of line 370: PathEquivalence tells it
\* from chunk_w
chunk_w_lt(bytes, chunk, num_chunks) ==
  IF (chunk * 64) + 64 <= Len(bytes)
  THEN copy_w(bytes, chunk * 64)
  ELSE LET offset == chunk * 64
           i == IF offset < Len(bytes) THEN Len(bytes) - offset ELSE 0
           buf0 == [j \in 1..64 |-> IF j <= i THEN bytes[offset + j] ELSE 0]
           buf1 == IF (Len(bytes) % 64 < 64 - 9) \/ (chunk + 2 = num_chunks)
                   THEN [buf0 EXCEPT ![i + 1] = 128]
                   ELSE buf0
           bit_len == Len(bytes) * 8
           buf2 == IF chunk + 1 = num_chunks
                   THEN [j \in 1..64 |-> IF j > 64 - 8 THEN ShrByte(bit_len, 64 - j) ELSE buf1[j]]
                   ELSE buf1
       IN copy_w(buf2, 0)

\* the message schedule of one chunk, lines 360-387
chunk_w(bytes, chunk, num_chunks) ==
  IF (chunk * 64) + 64 <= Len(bytes)
  THEN copy_w(bytes, chunk * 64)
  ELSE LET offset == chunk * 64
           i == IF offset < Len(bytes) THEN Len(bytes) - offset ELSE 0
           buf0 == [j \in 1..64 |-> IF j <= i THEN bytes[offset + j] ELSE 0]
           buf1 == IF (Len(bytes) % 64 <= 64 - 9) \/ (chunk + 2 = num_chunks)
                   THEN [buf0 EXCEPT ![i + 1] = 128]
                   ELSE buf0
           bit_len == Len(bytes) * 8
           buf2 == IF chunk + 1 = num_chunks
                   THEN [j \in 1..64 |-> IF j > 64 - 8 THEN ShrByte(bit_len, 64 - j) ELSE buf1[j]]
                   ELSE buf1
       IN copy_w(buf2, 0)

\* chunk_buf without the test of line 370: every chunk that is not full gets
\* 0x80.  ConstPathPadding tells it from chunk_buf
chunk_buf_every(bytes, chunk, num_chunks) ==
  IF (chunk * 64) + 64 <= Len(bytes)
  THEN [full |-> TRUE, i |-> 0, delim |-> {}, length |-> {}, buf_idx |-> {},
        bytes_idx |-> (chunk * 64)..((chunk * 64) + 63),
        buf |-> SubSeq(bytes, (chunk * 64) + 1, (chunk * 64) + 64),
        w |-> copy_w(bytes, chunk * 64)]
  ELSE LET offset == chunk * 64
           i == IF offset < Len(bytes) THEN Len(bytes) - offset ELSE 0
           delim == {i}
           length == IF chunk + 1 = num_chunks THEN (64 - 8)..(64 - 1) ELSE {}
           bit_len == Len(bytes) * 8
           buf == [j \in 1..64 |->
                     IF (j - 1) \in length THEN ShrByte(bit_len, 64 - j)
                     ELSE IF (j - 1) \in delim THEN 128
                     ELSE IF j <= i THEN bytes[offset + j]
                     ELSE 0]
       IN [full |-> FALSE, i |-> i, delim |-> delim, length |-> length,
           buf_idx |-> (0..(i - 1)) \cup delim \cup length,
           bytes_idx |-> {offset + j : j \in 0..(i - 1)},
           buf |-> buf,
           w |-> copy_w(buf, 0)]

\* lines 360-387 with the indices they touch: for a chunk that is not full,
\* i after the copy loop, the index of buf given 0x80 (delim), the indices
\* of buf given the bit length (length), every index of buf and of bytes
\* used, buf as copy_w receives it, and the schedule
chunk_buf(bytes, chunk, num_chunks) ==
  IF (chunk * 64) + 64 <= Len(bytes)
  THEN [full |-> TRUE, i |-> 0, delim |-> {}, length |-> {}, buf_idx |-> {},
        bytes_idx |-> (chunk * 64)..((chunk * 64) + 63),
        buf |-> SubSeq(bytes, (chunk * 64) + 1, (chunk * 64) + 64),
        w |-> copy_w(bytes, chunk * 64)]
  ELSE LET offset == chunk * 64
           i == IF offset < Len(bytes) THEN Len(bytes) - offset ELSE 0
           delim == IF (Len(bytes) % 64 <= 64 - 9) \/ (chunk + 2 = num_chunks)
                    THEN {i} ELSE {}
           length == IF chunk + 1 = num_chunks THEN (64 - 8)..(64 - 1) ELSE {}
           bit_len == Len(bytes) * 8
           buf == [j \in 1..64 |->
                     IF (j - 1) \in length THEN ShrByte(bit_len, 64 - j)
                     ELSE IF (j - 1) \in delim THEN 128
                     ELSE IF j <= i THEN bytes[offset + j]
                     ELSE 0]
       IN [full |-> FALSE, i |-> i, delim |-> delim, length |-> length,
           buf_idx |-> (0..(i - 1)) \cup delim \cup length,
           bytes_idx |-> {offset + j : j \in 0..(i - 1)},
           buf |-> buf,
           w |-> copy_w(buf, 0)]

\* the while loop from `chunk` on, lines 356-475
RECURSIVE chunk_loop(_, _, _, _, _)
chunk_loop(state, bytes, finalize, chunk, num_chunks) ==
  IF ~(chunk < num_chunks) THEN state
  ELSE IF ~finalize /\ chunk + 1 = num_chunks THEN state
  ELSE Only({chunk_loop(x, bytes, finalize, chunk + 1, num_chunks) :
               x \in {Compress(state, chunk_w(bytes, chunk, num_chunks), const_rounds)}})

\* num_chunks with 8 for 9, as if the 0x80 byte took no room: BlockCount tells
\* it from num_chunks
num_chunks_8(bytes) == (Len(bytes) + 8 + 63) \div 64

\* line 353
num_chunks(bytes) == (Len(bytes) + 9 + 63) \div 64

\* chunk_buf of every chunk the loop processes, in order
chunk_trace(bytes, finalize) ==
  [k \in 1..(IF finalize THEN num_chunks(bytes) ELSE num_chunks(bytes) - 1) |->
     chunk_buf(bytes, k - 1, num_chunks(bytes))]

compute_midstate_unoptimized(bytes, finalize) ==
  LET Output(state) == [j \in 1..32 |->
                          LET w == state[((j - 1) \div 4) + 1]
                              k == (j - 1) % 4
                          IN IF k = 0 THEN w[1] \div 256
                             ELSE IF k = 1 THEN w[1] % 256
                             ELSE IF k = 2 THEN w[2] \div 256
                             ELSE w[2] % 256]
  IN [bytes |-> Output(chunk_loop(IV, bytes, finalize, 0, num_chunks(bytes))),
      bytes_hashed |-> Len(bytes)]

hash_unoptimized(bytes) == compute_midstate_unoptimized(bytes, TRUE).bytes

\* hash_tag that finalizes: HashTagMidstate tells it from hash_tag
hash_tag_finalized(tag) ==
  LET Buf(h0) == [i \in 1..64 |-> h0[((i - 1) % Len(h0)) + 1]]
  IN compute_midstate_unoptimized(Buf(hash_unoptimized(tag)), TRUE)

hash_tag(tag) ==
  LET Buf(h0) == [i \in 1..64 |-> h0[((i - 1) % Len(h0)) + 1]]
  IN compute_midstate_unoptimized(Buf(hash_unoptimized(tag)), FALSE)

(***************************************************************************)
(* The byte counter at its width.  bytes_hashed is a u64 (lines 61 and     *)
(* 178); a u64 is kept here as four 16-bit limbs, most significant first.  *)
(* An addition or multiplication that leaves the u64 range panics in a     *)
(* build with overflow checks and wraps in a build without them.           *)
(***************************************************************************)
\* n as u64, for 0 <= n < 2^31
u64_from(n) == <<0, 0, n \div 65536, n % 65536>>

\* x + y: the sum mod 2^64, and whether the sum left the range
u64_add(x, y) ==
  LET s4 == x[4] + y[4]
      s3 == x[3] + y[3] + (s4 \div 65536)
      s2 == x[2] + y[2] + (s3 \div 65536)
      s1 == x[1] + y[1] + (s2 \div 65536)
  IN [val |-> <<s1 % 65536, s2 % 65536, s3 % 65536, s4 % 65536>>,
      overflow |-> s1 >= 65536]

\* 8 * x: the product mod 2^64, and whether the product left the range
u64_mul8(x) ==
  LET p4 == 8 * x[4]
      p3 == (8 * x[3]) + (p4 \div 65536)
      p2 == (8 * x[2]) + (p3 \div 65536)
      p1 == (8 * x[1]) + (p2 \div 65536)
  IN [val |-> <<p1 % 65536, p2 % 65536, p3 % 65536, p4 % 65536>>,
      overflow |-> p1 >= 65536]

\* x < y
u64_lt(x, y) ==
  \E i \in 1..4 : x[i] < y[i] /\ \A j \in 1..(i - 1) : x[j] = y[j]

\* x % 64
u64_rem64(x) == x[4] % 64

\* u64::to_be_bytes
u64_to_be_bytes(x) ==
  <<x[1] \div 256, x[1] % 256, x[2] \div 256, x[2] % 256,
    x[3] \div 256, x[3] % 256, x[4] \div 256, x[4] % 256>>

\* Midstate::new with bytes_hashed at its width
Midstate_new_u64(state, bytes_hashed) ==
  IF u64_rem64(bytes_hashed) # 0
  THEN [panic |-> TRUE, msg |-> "bytes hashed is not a multiple of 64"]
  ELSE [panic |-> FALSE, val |-> [bytes |-> state, bytes_hashed |-> bytes_hashed]]

\* the engine whose count is the length of eng's incomplete block: input reads
\* the count only through incomplete_block_len, so the two engines take the
\* same h and buffer from the same bytes
low_count(eng) ==
  [h |-> eng.h, buffer |-> eng.buffer, bytes_hashed |-> u64_rem64(eng.bytes_hashed)]

\* input with bytes_hashed at its width: h and buffer as input computes them,
\* the count by u64 addition
input_u64(eng, inp, c, overflow_checks) ==
  LET sum == u64_add(eng.bytes_hashed, u64_from(Len(inp)))
  IN IF sum.overflow /\ overflow_checks
     THEN [panic |-> TRUE, overflow |-> TRUE, eng |-> eng]
     ELSE Only({[panic |-> FALSE, overflow |-> sum.overflow,
                 eng |-> [h |-> r.h, buffer |-> r.buffer, bytes_hashed |-> sum.val]] :
                  r \in {input(low_count(eng), inp, c)}})

\* from_engine with bytes_hashed at its width, lines 23-41: the padding up to
\* the length field as from_engine_run computes it, 8 * n_bytes_hashed as a
\* u64 product (line 37), and the last input of its eight bytes
from_engine_u64(eng, c, overflow_checks) ==
  LET n_bytes_hashed_ == eng.bytes_hashed
      bits == u64_mul8(n_bytes_hashed_)
  IN Only({
       LET padded == u64_add(n_bytes_hashed_, u64_from(r.before_len.bytes_hashed
                                                        - u64_rem64(n_bytes_hashed_)))
           done == u64_add(padded.val, u64_from(8))
           counter_overflow == padded.overflow \/ done.overflow
           panic == overflow_checks /\ (counter_overflow \/ bits.overflow)
       IN IF panic
          THEN [panic |-> TRUE, n_bytes_hashed |-> n_bytes_hashed_,
                bit_len_overflow |-> bits.overflow,
                counter_overflow |-> counter_overflow]
          ELSE Only({[panic |-> FALSE, n_bytes_hashed |-> n_bytes_hashed_,
                      bit_len_overflow |-> bits.overflow,
                      counter_overflow |-> counter_overflow,
                      len_bytes |-> u64_to_be_bytes(bits.val),
                      bytes_hashed |-> done.val,
                      hash |-> midstate_unchecked(e4).bytes] :
                       e4 \in {input(r.before_len, u64_to_be_bytes(bits.val), c)}}) :
       r \in {from_engine_run(low_count(eng), c)}})

(***************************************************************************)
(* Inputs.                                                                 *)
(***************************************************************************)
\* a target without the SHA-NI path, and an x86-64 target with every feature
Scalar == [std |-> TRUE, target_arch |-> "aarch64", features |-> {}]
Shani == [std |-> TRUE, target_arch |-> "x86_64", features |-> Features]
CpuChoices == {Scalar, Shani}

\* every build and machine process_block can meet: with and without std, three
\* targets, any subset of the four features detected
DispatchChoices ==
  [std : BOOLEAN, target_arch : {"x86", "x86_64", "aarch64"}, features : SUBSET Features]

\* the message fed to the engines: byte i is i as u8 (tests::hash_unoptimized)
MessageByte(i) == i % 256
Slice(from, n) == [i \in 1..n |-> MessageByte(from + i - 1)]

\* lengths of the slices passed to input
ChunkLens == {0, 1, 63, 64, 65, 66}

\* b"TapLeaf", b"TapBranch", b"MuSig coefficient"
TapLeaf == <<84, 97, 112, 76, 101, 97, 102>>
TapBranch == <<84, 97, 112, 66, 114, 97, 110, 99, 104>>
MuSig == <<77, 117, 83, 105, 103, 32, 99, 111, 101, 102, 102, 105, 99, 105, 101, 110, 116>>
Tags == {<<>>, TapLeaf, TapBranch, MuSig, Slice(0, 55), Slice(0, 56), Slice(0, 64), Slice(1, 65)}

\* the tests array of tests::test: input.as_bytes() and output
tests ==
  <<
  [input |-> <<>>,
   output |-> <<227, 176, 196, 66, 152, 252, 28, 20, 154, 251, 244, 200, 153, 111, 185, 36,
               39, 174, 65, 228, 100, 155, 147, 76, 164, 149, 153, 27, 120, 82, 184, 85>>],
  [input |-> <<84, 104, 101, 32, 113, 117, 105, 99, 107, 32, 98, 114, 111, 119, 110, 32,
              102, 111, 120, 32, 106, 117, 109, 112, 115, 32, 111, 118, 101, 114, 32, 116,
              104, 101, 32, 108, 97, 122, 121, 32, 100, 111, 103>>,
   output |-> <<215, 168, 251, 179, 7, 215, 128, 148, 105, 202, 154, 188, 176, 8, 46, 79,
               141, 86, 81, 228, 109, 60, 219, 118, 45, 2, 208, 191, 55, 201, 229, 146>>],
  [input |-> <<84, 104, 101, 32, 113, 117, 105, 99, 107, 32, 98, 114, 111, 119, 110, 32,
              102, 111, 120, 32, 106, 117, 109, 112, 115, 32, 111, 118, 101, 114, 32, 116,
              104, 101, 32, 108, 97, 122, 121, 32, 100, 111, 103, 46>>,
   output |-> <<239, 83, 127, 37, 200, 149, 191, 167, 130, 82, 101, 41, 169, 182, 61, 151,
               170, 99, 21, 100, 213, 215, 137, 194, 183, 101, 68, 140, 134, 53, 251, 108>>]
  >>

\* TAP_LEAF_MIDSTATE of the tests
TAP_LEAF_MIDSTATE ==
  [bytes |-> <<156, 224, 228, 230, 124, 17, 108, 57, 56, 179, 202, 242, 195, 15, 80, 137,
               211, 243, 147, 108, 71, 99, 110, 96, 125, 179, 62, 234, 221, 198, 240, 201>>,
   bytes_hashed |-> 64]

\* MIDSTATE and HASH_EXPECTED of tests::engine_with_state
MIDSTATE ==
  <<15, 208, 105, 12, 254, 254, 174, 151, 153, 110, 172, 127, 92, 48, 216, 100,
    140, 74, 5, 115, 172, 161, 162, 47, 111, 67, 184, 1, 133, 206, 39, 205>>
HASH_EXPECTED ==
  <<24, 132, 228, 114, 64, 78, 244, 90, 180, 156, 78, 164, 154, 230, 35, 168,
    136, 82, 127, 125, 138, 6, 148, 32, 143, 241, 247, 169, 213, 105, 9, 89>>

\* valid midstates handed to from_midstate, and lengths of the tail given to
\* the engine made from them
MidstateChoices ==
  {Midstate_new(MIDSTATE, 64).val, TAP_LEAF_MIDSTATE, Midstate_default,
   Midstate_new(Slice(7, 32), 128).val}
TailLens == {0, 1, 55, 56, 64}

\* midstates whose round trip is taken, and the lengths given to the engines
\* whose midstate is taken
RoundTripMidstates ==
  {Midstate_new(s, n).val : s \in {Repeat(0, 32), Repeat(255, 32), MIDSTATE, Slice(7, 32)},
                            n \in {0, 64, 128}}
AlignedLens == {0, 64, 128}

\* 32-byte states handed to Midstate::new
StateChoices == {Repeat(0, 32), TAP_LEAF_MIDSTATE.bytes, Slice(7, 32)}

\* states and blocks handed to the two compression routines
StartStates == {IV, [i \in 1..8 |-> <<0, 0>>], [i \in 1..8 |-> <<65535, 65535>>]}
BlockChoices ==
  {Repeat(0, 64), Repeat(255, 64), Slice(193, 64), <<128>> \o Repeat(0, 63)}

Idle == [op |-> "idle"]

(***************************************************************************)
(* Spec: one streaming engine, fed the message in slices.                  *)
(***************************************************************************)
Init ==
  /\ cpu \in CpuChoices
  /\ e = new
  /\ fed = <<>>
  /\ last = [op |-> "new"]
  /\ cst = Idle
  /\ blk = Idle

\* from_engine takes the engine by value; Resume ends the run of tests::engine_with_state
Open == last.op \notin {"from_engine", "resume"}

\* e.input(&message[fed.len()..][..n])
Input(n) ==
  /\ Open
  /\ Len(fed) + n <= MaxFed
  /\ LET data == Slice(Len(fed), n)
     IN /\ e' = input(e, data, cpu)
        /\ fed' = fed \o data
  /\ last' = [op |-> "input"]
  /\ UNCHANGED <<cpu, cst, blk>>

\* a midstate() that took the engine by &mut self and padded it as from_engine
\* pads its copy
MidstateFinalizes ==
  /\ Open
  /\ last.op # "midstate"
  /\ last' = [op |-> "midstate", can |-> can_extract_midstate(e), res |-> midstate(e),
              n |-> n_bytes_hashed(e)]
  /\ e' = from_engine_run(e, cpu).final
  /\ UNCHANGED <<cpu, fed, cst, blk>>

\* e.can_extract_midstate(), e.midstate() and e.n_bytes_hashed(): all three
\* take &self.  A second round of the calls returns the same three values.
Midstate ==
  /\ Open
  /\ last.op # "midstate"
  /\ last' = [op |-> "midstate", can |-> can_extract_midstate(e), res |-> midstate(e),
              n |-> n_bytes_hashed(e)]
  /\ UNCHANGED <<cpu, e, fed, cst, blk>>

\* the loop body of tests::engine_with_state, lines 992-1003: an engine built
\* from e's midstate and a clone of e are fed the same n bytes and finalized
Resume(n) ==
  /\ Open
  /\ midstate(e).ok
  /\ Len(fed) + n <= MaxFed
  /\ LET data == Slice(Len(fed), n)
     IN last' \in {[op |-> "resume", tail |-> n, a |-> a, b |-> b,
                     hash_a |-> from_engine(a, cpu), hash_b |-> from_engine(b, cpu)] :
                      a \in {input(from_midstate(midstate(e).val), data, cpu)},
                      b \in {input(e, data, cpu)}}
  /\ UNCHANGED <<cpu, e, fed, cst, blk>>

\* Hash::from_engine(e), and beside it Hash::hash of everything fed; after is
\* the call that came before
Finalize ==
  /\ Open
  /\ last' \in {[op |-> "from_engine", after |-> last.op, run |-> from_engine_run(e, cpu),
                  one |-> one, one_hash |-> from_engine(one, cpu)] :
                   one \in {input(new, fed, cpu)}}
  /\ UNCHANGED <<cpu, e, fed, cst, blk>>

Next ==
  \/ \E n \in ChunkLens : Input(n)
  \/ Midstate
  \/ \E n \in ChunkLens : Resume(n)
  \/ Finalize

Spec == Init /\ [][Next]_vars

(***************************************************************************)
(* SpecConst: one call of a Midstate or const-path function.               *)
(***************************************************************************)
InitConst ==
  /\ cpu \in CpuChoices
  /\ e = new
  /\ fed = <<>>
  /\ last = [op |-> "new"]
  /\ cst = Idle
  /\ blk = Idle

\* Hash::hash_unoptimized(bytes) beside Hash::hash(bytes), tests::hash_unoptimized
HashUnoptimized(len) ==
  /\ cst = Idle
  /\ LET bytes == Slice(0, len)
     IN cst' = [op |-> "hash_unoptimized", len |-> len,
                out |-> hash_unoptimized(bytes),
                stream |-> from_engine_run(input(new, bytes, cpu), cpu)]
  /\ UNCHANGED <<cpu, e, fed, last, blk>>

ComputeMidstate(len, finalize) ==
  /\ cst = Idle
  /\ cst' = [op |-> "compute_midstate_unoptimized", len |-> len, finalize |-> finalize,
             out |-> compute_midstate_unoptimized(Slice(0, len), finalize),
             trace |-> chunk_trace(Slice(0, len), finalize)]
  /\ UNCHANGED <<cpu, e, fed, last, blk>>

MidstateNew(state, bytes_hashed) ==
  /\ cst = Idle
  /\ cst' = [op |-> "Midstate::new", state |-> state, bytes_hashed |-> bytes_hashed,
             out |-> Midstate_new(state, bytes_hashed)]
  /\ UNCHANGED <<cpu, e, fed, last, blk>>

\* the loop body of tests::test, lines 919-931: Hash::hash of the input, and an
\* engine given the input byte by byte, then from_engine
TestVector(t) ==
  /\ cst = Idle
  /\ cst' = [op |-> "test", input |-> tests[t].input, output |-> tests[t].output,
             hash |-> hash(tests[t].input, cpu),
             manual_hash |-> from_engine(input_each(new, tests[t].input, cpu), cpu)]
  /\ UNCHANGED <<cpu, e, fed, last, blk>>

\* HashEngine::from_midstate(m).midstate()
Decode(m) ==
  /\ cst = Idle
  /\ cst' = [op |-> "from_midstate.midstate", m |-> m, eng |-> from_midstate(m),
             out |-> midstate(from_midstate(m))]
  /\ UNCHANGED <<cpu, e, fed, last, blk>>

\* HashEngine::from_midstate(engine.midstate_unchecked()) of
\* tests::engine_with_state, lines 978-981, for a fresh engine and for engines
\* that were given whole blocks
Encode(len) ==
  /\ cst = Idle
  /\ cst' \in {[op |-> "midstate.from_midstate", len |-> len, eng |-> eng,
                 out |-> midstate(eng),
                 unchecked |-> midstate_unchecked(eng),
                 back |-> from_midstate(midstate_unchecked(eng))] :
                  eng \in {input(new, Slice(0, len), cpu)}}
  /\ UNCHANGED <<cpu, e, fed, last, blk>>

\* Hash::from_engine(HashEngine::from_midstate(m)) of tests::engine_with_state,
\* lines 1019-1021, with n bytes given to the engine in between
FinalizeResumed(m, n) ==
  /\ cst = Idle
  /\ cst' \in {[op |-> "from_midstate", m |-> m, tail |-> n, start |-> start,
                 run |-> from_engine_run(input(start, Slice(0, n), cpu), cpu)] :
                  start \in {from_midstate(m)}}
  /\ UNCHANGED <<cpu, e, fed, last, blk>>

MidstateDefault ==
  /\ cst = Idle
  /\ cst' = [op |-> "Midstate::default", out |-> Midstate_default]
  /\ UNCHANGED <<cpu, e, fed, last, blk>>

\* Midstate::hash_tag(tag), and beside it the midstate of a fresh engine fed
\* Hash::hash(tag) twice
HashTag(tag) ==
  /\ cst = Idle
  /\ cst' \in {[op |-> "hash_tag", tag |-> tag, out |-> hash_tag(tag),
                 stream |-> midstate(input(new, d \o d, cpu))] :
                  d \in {hash(tag, cpu)}}
  /\ UNCHANGED <<cpu, e, fed, last, blk>>

NextConst ==
  \/ MidstateDefault
  \/ \E t \in 1..Len(tests) : TestVector(t)
  \/ \E m \in RoundTripMidstates : Decode(m)
  \/ \E len \in AlignedLens : Encode(len)
  \/ \E m \in MidstateChoices, n \in TailLens : FinalizeResumed(m, n)
  \/ \E state \in StateChoices, n \in 0..MaxCount : MidstateNew(state, n)
  \/ \E tag \in Tags : HashTag(tag)
  \/ \E len \in 0..MaxMidstateLen, finalize \in BOOLEAN : ComputeMidstate(len, finalize)
  \/ \E len \in 0..MaxConstLen : HashUnoptimized(len)

SpecConst == InitConst /\ [][NextConst]_vars

(***************************************************************************)
(* SpecBlock: blocks compressed by software_process_block and by           *)
(* process_block_simd_x86_intrinsics from the same engine.                 *)
(***************************************************************************)
InitBlock ==
  /\ cpu = Shani
  /\ e = new
  /\ fed = <<>>
  /\ last = [op |-> "new"]
  /\ cst = Idle
  /\ blk \in {[n |-> 0, before |-> x, soft |-> x, simd |-> x] :
               x \in {[new EXCEPT !.h = h0] : h0 \in StartStates}}

\* a block is input to the engine left by software_process_block, and both
\* routines compress it
Block(b) ==
  /\ blk.n < MaxBlocks
  /\ LET eng == [blk.soft EXCEPT !.buffer = b, !.bytes_hashed = @ + BLOCK_SIZE]
     IN blk' = [n |-> blk.n + 1, before |-> eng,
                soft |-> software_process_block(eng),
                simd |-> process_block_simd_x86_intrinsics(eng)]
  /\ UNCHANGED <<cpu, e, fed, last, cst>>

\* process_block of a build and machine c on a first block, and beside it
\* the two routines on the same engine
Dispatch(c, b) ==
  /\ blk.n = 0
  /\ LET eng == [blk.soft EXCEPT !.buffer = b, !.bytes_hashed = @ + BLOCK_SIZE]
     IN blk' = [n |-> MaxBlocks, before |-> eng,
                soft |-> software_process_block(eng),
                simd |-> process_block_simd_x86_intrinsics(eng),
                target |-> c, run |-> process_block_run(eng, c)]
  /\ UNCHANGED <<cpu, e, fed, last, cst>>

\* the same block compressed by the scalar routine of the default build and
\* of the small-hash build, and by the rounds of the const path (lines
\* 399-465) in both builds; it ends the chain
SmallHash(b) ==
  /\ blk.n + 1 < MaxBlocks
  /\ LET eng == [blk.soft EXCEPT !.buffer = b, !.bytes_hashed = @ + BLOCK_SIZE]
     IN blk' = [n |-> MaxBlocks, before |-> eng,
                soft |-> software_process_block(eng),
                simd |-> process_block_simd_x86_intrinsics(eng),
                small |-> small_hash_software_process_block(eng),
                const |-> Compress(eng.h, copy_w(b, 0), const_rounds),
                small_const |-> small_hash_Compress(eng.h, copy_w(b, 0), const_rounds)]
  /\ UNCHANGED <<cpu, e, fed, last, cst>>

NextBlock ==
  \/ \E b \in BlockChoices : Block(b)
  \/ \E b \in BlockChoices : SmallHash(b)
  \/ \E c \in DispatchChoices : Dispatch(c, Slice(193, 64))

SpecBlock == InitBlock /\ [][NextBlock]_vars

(***************************************************************************)
(* SpecCount: one engine with bytes_hashed at its width, made by new() or  *)
(* by from_midstate of a Midstate that Midstate::new returned, fed by      *)
(* input and given to from_engine, in a build with and in a build without  *)
(* overflow checks.                                                        *)
(***************************************************************************)
\* counts handed to Midstate::new: 0, 1, 64, 2^61 - 64, 2^61, 2^64 - 128, 2^64 - 64
CountChoices ==
  {<<0, 0, 0, 0>>, <<0, 0, 0, 1>>, <<0, 0, 0, 64>>,
   <<\h1fff, \hffff, \hffff, \hffc0>>, <<\h2000, 0, 0, 0>>,
   <<\hffff, \hffff, \hffff, \hff80>>, <<\hffff, \hffff, \hffff, \hffc0>>}
CountLens == {1, 63, 64}

InitCount ==
  /\ cpu \in CpuChoices
  /\ e = new
  /\ fed = <<>>
  /\ last = [op |-> "new"]
  /\ blk = Idle
  /\ cst \in {[op |-> "new", overflow_checks |-> k, panic |-> FALSE, inputs |-> 0,
               eng |-> [new EXCEPT !.bytes_hashed = u64_from(0)]] : k \in BOOLEAN}

CountOpen == cst.op \in {"new", "from_midstate", "input"} /\ ~cst.panic

\* HashEngine::from_midstate(Midstate::new(state, n))
FromMidstateCount(state, n) ==
  /\ cst.op = "new"
  /\ LET made == Midstate_new_u64(state, n)
     IN cst' = IF made.panic
               THEN [op |-> "Midstate::new", overflow_checks |-> cst.overflow_checks,
                     panic |-> TRUE, count |-> n]
               ELSE [op |-> "from_midstate", overflow_checks |-> cst.overflow_checks,
                     panic |-> FALSE, inputs |-> 0, eng |-> from_midstate(made.val)]
  /\ UNCHANGED <<cpu, e, fed, last, blk>>

\* engine.input(data); prev is the count before the call
InputCount(n) ==
  /\ CountOpen
  /\ cst.inputs < MaxInputs
  /\ cst' \in {[op |-> "input", overflow_checks |-> cst.overflow_checks,
                 panic |-> r.panic, overflow |-> r.overflow, inputs |-> cst.inputs + 1,
                 prev |-> cst.eng.bytes_hashed, len |-> n, eng |-> r.eng] :
                  r \in {input_u64(cst.eng, Slice(17, n), cpu, cst.overflow_checks)}}
  /\ UNCHANGED <<cpu, e, fed, last, blk>>

\* Hash::from_engine(engine)
FinalizeCount ==
  /\ CountOpen
  /\ cst' = [op |-> "from_engine", overflow_checks |-> cst.overflow_checks,
             inputs |-> cst.inputs, after |-> cst.op,
             run |-> from_engine_u64(cst.eng, cpu, cst.overflow_checks)]
  /\ UNCHANGED <<cpu, e, fed, last, blk>>

NextCount ==
  \/ \E state \in {Repeat(0, 32), MIDSTATE}, n \in CountChoices : FromMidstateCount(state, n)
  \/ \E n \in CountLens : InputCount(n)
  \/ FinalizeCount

SpecCount == InitCount /\ [][NextCount]_vars

(***************************************************************************)
(* SpecStale: an engine and a twin with the same h, the same bytes_hashed  *)
(* and the same live bytes at the start of buffer, but other bytes behind  *)
(* them; the same calls are made on both.                                  *)
(***************************************************************************)
\* the live bytes of the buffer of eng, line 59
live(eng) == SubSeq(eng.buffer, 1, incomplete_block_len(eng))

\* eng with the bytes behind the live ones taken from fill
stale_twin(eng, fill) ==
  [eng EXCEPT !.buffer = live(eng) \o SubSeq(fill, incomplete_block_len(eng) + 1, BLOCK_SIZE)]

\* what the twin holds behind its live bytes: zeros, as the buffer of
\* from_midstate does (line 86), or other bytes
StaleFills == {Repeat(0, 64), Repeat(255, 64), Slice(99, 64)}
FeedLens == {60, 64}
TwinLens == {1, 30, 64}

InitStale ==
  /\ cpu \in CpuChoices
  /\ e = new
  /\ fed = <<>>
  /\ last = [op |-> "new"]
  /\ cst = Idle
  /\ blk = Idle

\* e.input(&message[fed.len()..][..n]), before there is a twin
Feed(n) ==
  /\ cst = Idle
  /\ Len(fed) + n <= MaxStaleFed
  /\ LET data == Slice(Len(fed), n)
     IN /\ e' = input(e, data, cpu)
        /\ fed' = fed \o data
  /\ last' = [op |-> "input"]
  /\ UNCHANGED <<cpu, cst, blk>>

\* the twin of e
Twin(fill) ==
  /\ cst = Idle
  /\ cst' = [op |-> "twin", inputs |-> 0, eng |-> stale_twin(e, fill)]
  /\ last' = [op |-> "twin"]
  /\ UNCHANGED <<cpu, e, fed, blk>>

StaleOpen == cst # Idle /\ last.op # "from_engine"

\* input(data) on both
InputBoth(n) ==
  /\ StaleOpen
  /\ cst.inputs < MaxTwinInputs
  /\ LET data == Slice(Len(fed), n)
     IN /\ e' = input(e, data, cpu)
        /\ cst' = [cst EXCEPT !.inputs = @ + 1, !.eng = input(@, data, cpu)]
        /\ fed' = fed \o data
  /\ last' = [op |-> "input"]
  /\ UNCHANGED <<cpu, blk>>

\* can_extract_midstate(), midstate() and n_bytes_hashed() on both
MidstateBoth ==
  /\ StaleOpen
  /\ last.op # "midstate"
  /\ last' = [op |-> "midstate",
              a |-> [can |-> can_extract_midstate(e), res |-> midstate(e),
                     n |-> n_bytes_hashed(e)],
              b |-> [can |-> can_extract_midstate(cst.eng), res |-> midstate(cst.eng),
                     n |-> n_bytes_hashed(cst.eng)]]
  /\ UNCHANGED <<cpu, e, fed, cst, blk>>

\* Hash::from_engine on both
FinalizeBoth ==
  /\ StaleOpen
  /\ last' = [op |-> "from_engine", a |-> from_engine_run(e, cpu),
              b |-> from_engine_run(cst.eng, cpu)]
  /\ UNCHANGED <<cpu, e, fed, cst, blk>>

NextStale ==
  \/ \E n \in FeedLens : Feed(n)
  \/ \E fill \in StaleFills : Twin(fill)
  \/ \E n \in TwinLens : InputBoth(n)
  \/ MidstateBoth
  \/ FinalizeBoth

SpecStale == InitStale /\ [][NextStale]_vars

(***************************************************************************)
(* Properties.                                                             *)
(***************************************************************************)
\* the valid bytes at the start of an engine's buffer
LivePrefix(eng) == SubSeq(eng.buffer, 1, eng.bytes_hashed % BLOCK_SIZE)

\* the big-endian bytes of the words of h, and of a 64-bit count below 2^31,
\* written byte by byte
BigEndian(h) ==
  [j \in 1..(4 * Len(h)) |->
     LET x == h[((j - 1) \div 4) + 1]
         k == (j - 1) % 4
     IN IF k = 0 THEN x[1] \div 256
        ELSE IF k = 1 THEN x[1] % 256
        ELSE IF k = 2 THEN x[2] \div 256
        ELSE x[2] % 256]
BigEndian64(x) == [j \in 1..8 |-> IF j <= 4 THEN 0 ELSE (x \div (256 ^ (8 - j))) % 256]

\* C1 (chunk invariance): however the bytes fed so far were cut into input
\* calls -- empty slices, slices that fill a block exactly, slices that cross
\* block boundaries -- the engine has the h, the bytes_hashed and the live
\* buffer prefix of a fresh engine given all the bytes in one input call, and
\* from_engine returns the same digest for both.
ChunkInvariance ==
  last.op = "from_engine" =>
    /\ e.h = last.one.h
    /\ e.bytes_hashed = last.one.bytes_hashed
    /\ LivePrefix(e) = LivePrefix(last.one)
    /\ last.run.hash = last.one_hash

\* 130 bytes cannot arrive in fewer than two of the slices of ChunkLens, and
\* one of them crosses or ends on a block boundary
ChunkInvarianceWitness ==
  /\ last.op = "from_engine"
  /\ Len(fed) = MaxFed
  /\ e.bytes_hashed = Len(fed)
  /\ last.run.hash = last.one_hash

\* C2 (path equivalence): for every message of length 0..MaxConstLen the
\* digest of the streaming path (new, input, from_engine), on either
\* compression routine, is the digest hash_unoptimized computes.
PathEquivalence ==
  cst.op = "hash_unoptimized" => cst.out = cst.stream.hash

\* a length whose padding spills into a block of its own, on the SHA-NI path
PathEquivalenceWitness ==
  /\ cst.op = "hash_unoptimized"
  /\ cst.len = 120
  /\ cpu = Shani
  /\ cst.out = cst.stream.hash

\* C3 (midstate extraction constraint): a midstate() call on an engine whose
\* bytes_hashed is not a multiple of 64 returns Err(MidstateError) with
\* invalid_n_bytes_hashed equal to the engine's bytes_hashed, and leaves h,
\* buffer and bytes_hashed as they were.
MidstateErrorCarriesCount ==
  [][(last'.op = "midstate" /\ last.op # "midstate" /\ e.bytes_hashed % 64 # 0) =>
       /\ ~last'.res.ok
       /\ last'.res.err.invalid_n_bytes_hashed = e.bytes_hashed
       /\ e' = e]_vars

MidstateErrorWitness ==
  /\ last.op = "midstate"
  /\ e.bytes_hashed = 65
  /\ ~last.res.ok
  /\ last.res.err.invalid_n_bytes_hashed = 65

\* C4: after any sequence of input calls, can_extract_midstate() is true
\* exactly when the number of bytes fed is a multiple of 64, and midstate()
\* is Ok exactly then, with Midstate.bytes_hashed the number of bytes fed.
CanExtractIffAligned ==
  last.op = "midstate" =>
    /\ last.can <=> (Len(fed) % 64 = 0)
    /\ last.res.ok <=> (Len(fed) % 64 = 0)
    /\ last.res.ok => last.res.val.bytes_hashed = Len(fed)
    /\ ~last.res.ok => last.res.err.invalid_n_bytes_hashed = Len(fed)

CanExtractWitness ==
  /\ last.op = "midstate"
  /\ Len(fed) = 64
  /\ last.can
  /\ last.res.ok
  /\ last.res.val.bytes_hashed = 64

\* C5 (midstate round trip): at a block boundary, the engine rebuilt by
\* from_midstate from midstate() and the engine itself, given the same tail,
\* end with the same h and bytes_hashed and finalize to the same digest.
MidstateRoundTrip ==
  last.op = "resume" =>
    /\ last.a.h = last.b.h
    /\ last.a.bytes_hashed = last.b.bytes_hashed
    /\ last.hash_a = last.hash_b

\* a tail that crosses a block boundary, resumed after the first block
MidstateRoundTripWitness ==
  /\ last.op = "resume"
  /\ e.bytes_hashed = 64
  /\ last.tail = 65
  /\ last.a.bytes_hashed = 129
  /\ last.hash_a = last.hash_b

\* C6: Midstate::new panics, and returns no Midstate, when bytes_hashed is not
\* a multiple of 64; otherwise it returns a Midstate whose as_parts() and
\* to_parts() are (state, bytes_hashed).
MidstateNewChecks ==
  cst.op = "Midstate::new" =>
    IF cst.bytes_hashed % 64 # 0
    THEN cst.out.panic /\ "val" \notin DOMAIN cst.out
    ELSE /\ ~cst.out.panic
         /\ as_parts(cst.out.val) = <<cst.state, cst.bytes_hashed>>
         /\ to_parts(cst.out.val) = <<cst.state, cst.bytes_hashed>>

MidstateNewWitness ==
  /\ cst.op = "Midstate::new"
  /\ cst.bytes_hashed = 65
  /\ cst.out.panic

\* C7 (Midstate invariant): every Midstate the program constructs -- by
\* Midstate::new, Midstate::default, HashEngine::midstate, midstate_unchecked
\* in from_engine, Midstate::hash_tag and compute_midstate_unoptimized, for
\* either finalize and any length -- has bytes_hashed a multiple of 64.
MidstateInvariant ==
  /\ (cst.op = "Midstate::new" /\ ~cst.out.panic) => cst.out.val.bytes_hashed % 64 = 0
  /\ cst.op = "Midstate::default" => cst.out.bytes_hashed % 64 = 0
  /\ cst.op = "hash_tag" =>
       /\ cst.out.bytes_hashed % 64 = 0
       /\ cst.stream.ok => cst.stream.val.bytes_hashed % 64 = 0
  /\ cst.op = "hash_unoptimized" =>
       midstate_unchecked(cst.stream.final).bytes_hashed % 64 = 0
  /\ cst.op = "compute_midstate_unoptimized" => cst.out.bytes_hashed % 64 = 0

\* C8 (finalization padding): from_engine on an engine with n = bytes_hashed
\* feeds the byte 0x80, then (55 - (n mod 64) + 64) mod 64 zero bytes, then
\* the 8 big-endian bytes of 8 * n; bytes_hashed mod 64 is 56 just before the
\* length goes in and 0 after it, and the digest is h at that point,
\* big-endian.
FinalizationPadding ==
  last.op = "from_engine" =>
    LET x == last.run
    IN /\ x.padding = <<128>> \o Repeat(0, (55 - (e.bytes_hashed % 64) + 64) % 64)
                        \o BigEndian64(8 * e.bytes_hashed)
       /\ x.before_len.bytes_hashed % 64 = 56
       /\ x.before_len.bytes_hashed + 8 = x.final.bytes_hashed
       /\ x.final.bytes_hashed % 64 = 0
       /\ x.final.bytes_hashed = e.bytes_hashed + Len(x.padding)
       /\ x.at56 /\ x.at0
       /\ x.hash = BigEndian(x.final.h)

\* 56 bytes in the buffer: the padding does not fit and takes 64 + 7 bytes
FinalizationPaddingWitness ==
  /\ last.op = "from_engine"
  /\ e.bytes_hashed = 120
  /\ Len(last.run.padding) = 72
  /\ last.run.final.bytes_hashed = 192

\* C9 (tagged midstate): hash_tag(tag) has bytes_hashed 64 and is the
\* midstate() of a fresh engine fed SHA256(tag) || SHA256(tag); for b"TapLeaf"
\* it is TAP_LEAF_MIDSTATE.
HashTagMidstate ==
  cst.op = "hash_tag" =>
    /\ cst.out.bytes_hashed = 64
    /\ cst.stream.ok
    /\ cst.out = cst.stream.val
    /\ cst.tag = TapLeaf => cst.out = TAP_LEAF_MIDSTATE

HashTagWitness ==
  /\ cst.op = "hash_tag"
  /\ cst.tag = TapLeaf
  /\ cst.out.bytes = TAP_LEAF_MIDSTATE.bytes

\* C10 (scalar/SHA-NI equivalence): on the same h and buffer,
\* software_process_block and process_block_simd_x86_intrinsics write the same
\* h, and both leave buffer and bytes_hashed as they were.
ScalarShaniEquivalence ==
  blk.n > 0 =>
    /\ blk.soft.h = blk.simd.h
    /\ blk.soft.buffer = blk.before.buffer
    /\ blk.simd.buffer = blk.before.buffer
    /\ blk.soft.bytes_hashed = blk.before.bytes_hashed
    /\ blk.simd.bytes_hashed = blk.before.bytes_hashed

\* a second block, all ones, compressed to a new h by both routines
ScalarShaniWitness ==
  /\ blk.n = 2
  /\ blk.before.buffer = Repeat(255, 64)
  /\ blk.simd.h # blk.before.h
  /\ blk.simd.h = blk.soft.h

\* C11 (vector correctness): the digests of "", of "The quick brown fox jumps
\* over the lazy dog" and of that sentence followed by "." are the published
\* ones (e3b0c442..., d7a8fbb3..., ef537f25...), through one Hash::hash call
\* and through byte-by-byte input followed by from_engine.
VectorCorrectness ==
  cst.op = "test" =>
    /\ cst.hash = cst.output
    /\ cst.manual_hash = cst.output
    /\ Len(cst.input) = 0 => SubSeq(cst.hash, 1, 4) = <<227, 176, 196, 66>>
    /\ Len(cst.input) = 43 => SubSeq(cst.hash, 1, 4) = <<215, 168, 251, 179>>
    /\ Len(cst.input) = 44 => SubSeq(cst.hash, 1, 4) = <<239, 83, 127, 37>>

VectorCorrectnessWitness ==
  /\ cst.op = "test"
  /\ Len(cst.input) = 44
  /\ cpu = Shani
  /\ SubSeq(cst.manual_hash, 29, 32) = <<134, 53, 251, 108>>

\* C12 (midstate extraction does not finalize): a step that calls midstate(),
\* can_extract_midstate() and n_bytes_hashed() leaves h, buffer and
\* bytes_hashed as they were; the input call that follows it is accepted and
\* counts its bytes on top of the unchanged count; and from_engine after it
\* returns the digest of an engine that was given the same bytes and never
\* asked for its midstate.
MidstateDoesNotFinalize ==
  [][/\ (last'.op = "midstate" /\ last.op # "midstate") =>
          /\ e'.h = e.h
          /\ e'.buffer = e.buffer
          /\ e'.bytes_hashed = e.bytes_hashed
          /\ last'.n = e.bytes_hashed
     /\ (last.op = "midstate" /\ last'.op = "input") =>
          /\ e'.bytes_hashed = last.n + (Len(fed') - Len(fed))
          /\ e'.bytes_hashed = Len(fed')
     /\ (last.op = "midstate" /\ last'.op = "from_engine") =>
          /\ last'.after = "midstate"
          /\ last'.run.hash = last'.one_hash
          /\ last'.run.n_bytes_hashed = last.n]_vars

\* from_engine right after a successful midstate() of an engine that had
\* compressed two blocks
MidstateDoesNotFinalizeWitness ==
  /\ last.op = "from_engine"
  /\ last.after = "midstate"
  /\ Len(fed) = 128
  /\ e.bytes_hashed = 128
  /\ last.run.hash = last.one_hash

\* the state after compressing, in order and once each, the complete 64-byte
\* blocks of bytes, starting from the state h0
RECURSIVE CompressBlocks(_, _)
CompressBlocks(h0, bytes) ==
  IF Len(bytes) < BLOCK_SIZE THEN h0
  ELSE Only({CompressBlocks(x, SubSeq(bytes, BLOCK_SIZE + 1, Len(bytes))) :
               x \in {software_process_block([buffer |-> SubSeq(bytes, 1, BLOCK_SIZE),
                                               h |-> h0,
                                               bytes_hashed |-> BLOCK_SIZE]).h}})

\* the bytes after the last complete 64-byte block
TailBytes(bytes) == SubSeq(bytes, (BLOCK_SIZE * (Len(bytes) \div BLOCK_SIZE)) + 1, Len(bytes))

\* C13 (engine representation invariant): after any sequence of input calls
\* on an engine made by new(), h is the IV run through the compression of
\* each complete 64-byte block of the bytes fed, in order and once each, and
\* the first bytes_hashed mod 64 bytes of buffer are the bytes fed after the
\* last complete block; the same holds, from the decoded midstate, for an
\* engine made by from_midstate and given a tail; an input call that does not
\* complete a block leaves h as it was.
EngineRepresentation ==
  /\ [](/\ e.h = CompressBlocks(IV, fed)
        /\ LivePrefix(e) = TailBytes(fed)
        /\ last.op = "resume" =>
              /\ last.a.h = CompressBlocks(from_midstate(midstate(e).val).h,
                                           Slice(Len(fed), last.tail))
              /\ LivePrefix(last.a) = TailBytes(Slice(Len(fed), last.tail)))
  /\ [][(last'.op = "input" /\ (Len(fed') \div BLOCK_SIZE) = (Len(fed) \div BLOCK_SIZE)) =>
          e'.h = e.h]_vars

\* two complete blocks compressed and two bytes waiting in the buffer
EngineRepresentationWitness ==
  /\ last.op = "input"
  /\ Len(fed) = 130
  /\ e.h # IV
  /\ e.h = CompressBlocks(IV, fed)
  /\ LivePrefix(e) = <<MessageByte(128), MessageByte(129)>>

\* C14 (byte accounting): every input call adds the length of its slice to
\* n_bytes_hashed(), so the count is 0 for new(), or the midstate's
\* bytes_hashed for from_midstate, plus the lengths of all slices given since;
\* an input call with an empty slice leaves h, buffer and bytes_hashed as
\* they were.
ByteAccounting ==
  /\ [](/\ n_bytes_hashed(new) = 0
        /\ n_bytes_hashed(e) = Len(fed)
        /\ last.op = "resume" =>
              /\ n_bytes_hashed(from_midstate(midstate(e).val)) = midstate(e).val.bytes_hashed
              /\ n_bytes_hashed(last.a) = midstate(e).val.bytes_hashed + last.tail
              /\ last.tail = 0 => last.a = from_midstate(midstate(e).val))
  /\ [][last'.op = "input" =>
          /\ n_bytes_hashed(e') = n_bytes_hashed(e) + (Len(fed') - Len(fed))
          /\ Len(fed') = Len(fed) => e' = e]_vars

\* an empty slice given to an engine that holds an incomplete block
ByteAccountingWitness ==
  /\ last.op = "input"
  /\ Len(fed) = 129
  /\ n_bytes_hashed(e) = 129
  /\ e = input(e, <<>>, cpu)

\* C15 (const path without finalization), as the specification states it: for
\* every length, compute_midstate_unoptimized(bytes, false) returns the IV run
\* through the compression of the complete 64-byte blocks of bytes and of
\* nothing else.  It fails at every length that is 56..63 mod 64.
ConstPathWithoutFinalization ==
  (cst.op = "compute_midstate_unoptimized" /\ ~cst.finalize) =>
    cst.out.bytes = BigEndian(CompressBlocks(IV, Slice(0, cst.len)))

\* what the loop of lines 356-475 returns without finalization: when the
\* length is 56..63 mod 64 the chunk holding the last bytes is not the last
\* of num_chunks, and it is compressed with 0x80 and zeros after the bytes
ConstPathCompressesPaddedChunk ==
  (cst.op = "compute_midstate_unoptimized" /\ ~cst.finalize) =>
    cst.out.bytes =
      BigEndian(CompressBlocks(IV,
        IF (cst.len % BLOCK_SIZE) <= 55 THEN Slice(0, cst.len)
        ELSE Slice(0, cst.len) \o <<128>> \o Repeat(0, 63 - (cst.len % BLOCK_SIZE))))

\* C16 (finalizing a resumed engine): for a valid midstate m and a tail t,
\* the engine from_midstate(m) starts from the words decoded from m.bytes;
\* from_engine, after input(t), writes 8 * (m.bytes_hashed + len(t)) as the
\* 64-bit big-endian length, the digest is the decoded state run through the
\* compression of t followed by the padding, and with an empty tail the
\* padding is one block: 0x80, 55 zeros, the length 8 * m.bytes_hashed.  The
\* MuSig midstate of tests::engine_with_state finalizes to HASH_EXPECTED.
FinalizeResumedEngine ==
  cst.op = "from_midstate" =>
    /\ BigEndian(cst.start.h) = cst.m.bytes
    /\ cst.start.bytes_hashed = cst.m.bytes_hashed
    /\ cst.run.n_bytes_hashed = cst.m.bytes_hashed + cst.tail
    /\ SubSeq(cst.run.padding, Len(cst.run.padding) - 7, Len(cst.run.padding))
         = BigEndian64(8 * (cst.m.bytes_hashed + cst.tail))
    /\ cst.run.hash
         = BigEndian(CompressBlocks(cst.start.h, Slice(0, cst.tail) \o cst.run.padding))
    /\ cst.run.final.bytes_hashed
         = cst.m.bytes_hashed + (IF cst.tail < 56 THEN 64 ELSE 128)
    /\ cst.tail = 0 =>
          /\ cst.run.padding
               = <<128>> \o Repeat(0, 55) \o BigEndian64(8 * cst.m.bytes_hashed)
          /\ cst.run.final.bytes_hashed = cst.m.bytes_hashed + BLOCK_SIZE
    /\ (cst.tail = 0 /\ cst.m.bytes = MIDSTATE /\ cst.m.bytes_hashed = 64) =>
          cst.run.hash = HASH_EXPECTED

\* the MuSig midstate finalized with no tail on the SHA-NI path: the length
\* field holds 512 bits
FinalizeResumedWitness ==
  /\ cst.op = "from_midstate"
  /\ cst.m.bytes = MIDSTATE
  /\ cst.tail = 0
  /\ cpu = Shani
  /\ SubSeq(cst.run.padding, 57, 64) = <<0, 0, 0, 0, 0, 0, 2, 0>>
  /\ cst.run.hash = HASH_EXPECTED

\* C17 (serialization round trip): midstate_unchecked writes h0..h7 as 32
\* bytes, each word big-endian, and from_midstate reads them the same way:
\* from_midstate(m).midstate() is Ok(m) for every valid m, the engine it makes
\* has bytes_hashed of m and an all-zero buffer; from_midstate of an engine's
\* midstate has the engine's h and bytes_hashed and an all-zero buffer; the
\* midstate of a fresh engine is the IV, word by word big-endian, with
\* bytes_hashed 0.
SerializationRoundTrip ==
  /\ cst.op = "from_midstate.midstate" =>
       /\ cst.out = [ok |-> TRUE, val |-> cst.m]
       /\ BigEndian(cst.eng.h) = cst.m.bytes
       /\ cst.eng.bytes_hashed = cst.m.bytes_hashed
       /\ cst.eng.buffer = Repeat(0, BLOCK_SIZE)
  /\ cst.op = "midstate.from_midstate" =>
       /\ cst.out = [ok |-> TRUE, val |-> cst.unchecked]
       /\ cst.unchecked.bytes = BigEndian(cst.eng.h)
       /\ cst.unchecked.bytes_hashed = cst.len
       /\ cst.back.h = cst.eng.h
       /\ cst.back.bytes_hashed = cst.eng.bytes_hashed
       /\ cst.back.buffer = Repeat(0, BLOCK_SIZE)
       /\ cst.len = 0 =>
             /\ cst.eng = new
             /\ cst.unchecked = [bytes |-> BigEndian(IV), bytes_hashed |-> 0]
             /\ SubSeq(cst.unchecked.bytes, 1, 4) = <<106, 9, 230, 103>>

\* the midstate of an engine that compressed one block, whose buffer still
\* holds the block: the engine made from it has the same h and a zero buffer
SerializationRoundTripWitness ==
  /\ cst.op = "midstate.from_midstate"
  /\ cst.len = 64
  /\ cst.eng.buffer = Slice(0, 64)
  /\ cst.eng.h # IV
  /\ cst.back.h = cst.eng.h
  /\ cst.back.buffer # cst.eng.buffer

\* C18 (block count): for every length, num_chunks = (len + 9 + 63) / 64 is
\* the number of blocks the streaming path has taken in when from_engine
\* returns -- the message and its padding fill exactly that many blocks --
\* and it is floor(len / 64) + 1 when len mod 64 <= 55 and floor(len / 64) + 2
\* when len mod 64 >= 56.
BlockCount ==
  cst.op = "hash_unoptimized" =>
    /\ num_chunks(Slice(0, cst.len)) * BLOCK_SIZE = cst.stream.final.bytes_hashed
    /\ cst.len + Len(cst.stream.padding) = cst.stream.final.bytes_hashed
    /\ cst.stream.at0
    /\ num_chunks(Slice(0, cst.len))
         = (cst.len \div BLOCK_SIZE) + (IF (cst.len % BLOCK_SIZE) <= 55 THEN 1 ELSE 2)

\* 56 bytes: the padding does not fit in the block of the message
BlockCountWitness ==
  /\ cst.op = "hash_unoptimized"
  /\ cst.len = 56
  /\ num_chunks(Slice(0, cst.len)) = 2
  /\ cst.stream.final.bytes_hashed = 128

(***************************************************************************)
(* SHA-256 as FIPS 180-4 writes it: the functions of section 4.1.2 with    *)
(* ROTR and SHR, the constants of section 4.2.2, and the hash computation  *)
(* of section 6.2.2 with a 64-word message schedule.                       *)
(***************************************************************************)
ROTR(n, x) == ROR(x, n)
FipsCh(x, y, z) == Xor32(And32(x, y), And32(Not32(x), z))
FipsMaj(x, y, z) == Xor32(Xor32(And32(x, y), And32(x, z)), And32(y, z))
FipsBigSigma0(x) == Xor32(Xor32(ROTR(2, x), ROTR(13, x)), ROTR(22, x))
FipsBigSigma1(x) == Xor32(Xor32(ROTR(6, x), ROTR(11, x)), ROTR(25, x))
FipsSmallSigma0(x) == Xor32(Xor32(ROTR(7, x), ROTR(18, x)), Shr(x, 3))
FipsSmallSigma1(x) == Xor32(Xor32(ROTR(17, x), ROTR(19, x)), Shr(x, 10))

FipsK ==
  <<
   <<\h428a, \h2f98>>, <<\h7137, \h4491>>, <<\hb5c0, \hfbcf>>, <<\he9b5, \hdba5>>,
   <<\h3956, \hc25b>>, <<\h59f1, \h11f1>>, <<\h923f, \h82a4>>, <<\hab1c, \h5ed5>>,
   <<\hd807, \haa98>>, <<\h1283, \h5b01>>, <<\h2431, \h85be>>, <<\h550c, \h7dc3>>,
   <<\h72be, \h5d74>>, <<\h80de, \hb1fe>>, <<\h9bdc, \h06a7>>, <<\hc19b, \hf174>>,
   <<\he49b, \h69c1>>, <<\hefbe, \h4786>>, <<\h0fc1, \h9dc6>>, <<\h240c, \ha1cc>>,
   <<\h2de9, \h2c6f>>, <<\h4a74, \h84aa>>, <<\h5cb0, \ha9dc>>, <<\h76f9, \h88da>>,
   <<\h983e, \h5152>>, <<\ha831, \hc66d>>, <<\hb003, \h27c8>>, <<\hbf59, \h7fc7>>,
   <<\hc6e0, \h0bf3>>, <<\hd5a7, \h9147>>, <<\h06ca, \h6351>>, <<\h1429, \h2967>>,
   <<\h27b7, \h0a85>>, <<\h2e1b, \h2138>>, <<\h4d2c, \h6dfc>>, <<\h5338, \h0d13>>,
   <<\h650a, \h7354>>, <<\h766a, \h0abb>>, <<\h81c2, \hc92e>>, <<\h9272, \h2c85>>,
   <<\ha2bf, \he8a1>>, <<\ha81a, \h664b>>, <<\hc24b, \h8b70>>, <<\hc76c, \h51a3>>,
   <<\hd192, \he819>>, <<\hd699, \h0624>>, <<\hf40e, \h3585>>, <<\h106a, \ha070>>,
   <<\h19a4, \hc116>>, <<\h1e37, \h6c08>>, <<\h2748, \h774c>>, <<\h34b0, \hbcb5>>,
   <<\h391c, \h0cb3>>, <<\h4ed8, \haa4a>>, <<\h5b9c, \hca4f>>, <<\h682e, \h6ff3>>,
   <<\h748f, \h82ee>>, <<\h78a5, \h636f>>, <<\h84c8, \h7814>>, <<\h8cc7, \h0208>>,
   <<\h90be, \hfffa>>, <<\ha450, \h6ceb>>, <<\hbef9, \ha3f7>>, <<\hc671, \h78f2>>
  >>

\* W extended by the next n words: W_t = ssig1(W_{t-2}) + W_{t-7} +
\* ssig0(W_{t-15}) + W_{t-16}
RECURSIVE FipsSchedule(_, _)
FipsSchedule(W, n) ==
  IF n = 1
  THEN Append(W, wrapping_add(wrapping_add(wrapping_add(FipsSmallSigma1(W[Len(W) - 1]),
                                                        W[Len(W) - 6]),
                                           FipsSmallSigma0(W[Len(W) - 14])),
                              W[Len(W) - 15]))
  ELSE Only({FipsSchedule(x, n - (n \div 2)) : x \in {FipsSchedule(W, n \div 2)}})

\* round t on the working variables v = <<a, b, c, d, e, f, g, h>>
FipsRound(v, W, t) ==
  Only({<<wrapping_add(T[1], T[2]), v[1], v[2], v[3],
          wrapping_add(v[4], T[1]), v[5], v[6], v[7]>> :
          T \in {<<wrapping_add(wrapping_add(wrapping_add(wrapping_add(
                                   v[8], FipsBigSigma1(v[5])),
                                   FipsCh(v[5], v[6], v[7])), FipsK[t]), W[t]),
                   wrapping_add(FipsBigSigma0(v[1]), FipsMaj(v[1], v[2], v[3]))>>}})

\* rounds t .. t + n - 1, in order
RECURSIVE FipsRounds(_, _, _, _)
FipsRounds(v, W, t, n) ==
  IF n = 1 THEN FipsRound(v, W, t)
  ELSE Only({FipsRounds(x, W, t + (n \div 2), n - (n \div 2)) :
               x \in {FipsRounds(v, W, t, n \div 2)}})

FipsCompress(state, block) ==
  Only({[i \in 1..8 |-> wrapping_add(state[i], v[i])] :
          v \in {Only({FipsRounds(state, W, 1, 64) :
                         W \in {FipsSchedule([i \in 1..16 |->
                                   <<(block[(4 * i) - 3] * 256) + block[(4 * i) - 2],
                                     (block[(4 * i) - 1] * 256) + block[4 * i]>>], 48)}})}})

\* C19 (scalar compression conforms to FIPS 180-4): for every state and
\* block, software_process_block -- the 64 unrolled round! invocations with
\* the roles of a..h rotated and W kept as a 16-word window -- writes the h
\* that the 64-round loop of FIPS 180-4 computes with a 64-word schedule; and
\* on the words of the state and of the block the helpers written with
\* rotate_left(32 - n) and the two-operation Ch and Maj equal the ROTR forms.
ScalarConformsToFips ==
  blk.n > 0 =>
    /\ blk.soft.h = FipsCompress(blk.before.h, blk.before.buffer)
    /\ \A i \in 1..8 :
         LET x == blk.before.h[i]
             y == blk.soft.h[i]
             z == from_be_bytes(SubSeq(blk.before.buffer, (4 * i) - 3, 4 * i))
         IN /\ Sigma0(x) = FipsBigSigma0(x)
            /\ Sigma1(x) = FipsBigSigma1(x)
            /\ sigma0(y) = FipsSmallSigma0(y)
            /\ sigma1(y) = FipsSmallSigma1(y)
            /\ Ch(x, y, z) = FipsCh(x, y, z)
            /\ Maj(x, y, z) = FipsMaj(x, y, z)

\* the third block of a chain, taken from the message bytes, compressed from a
\* state that two compressions produced
ScalarConformsToFipsWitness ==
  /\ blk.n = 3
  /\ blk.before.buffer = Slice(193, 64)
  /\ blk.soft.h # blk.before.h
  /\ blk.soft.h = FipsCompress(blk.before.h, blk.before.buffer)

\* C20 (compression dispatch), as the specification states it: process_block
\* runs one routine once, the SHA-NI one if and only if the target is x86 or
\* x86-64 and the four features sha, sse2, ssse3 and sse4.1 are all detected.
\* It fails on an x86 or x86-64 build without the std feature.
DispatchWithoutStd ==
  "target" \in DOMAIN blk =>
    blk.run.calls =
      IF blk.target.target_arch \in {"x86", "x86_64"} /\ Features \subseteq blk.target.features
      THEN <<"process_block_simd_x86_intrinsics">>
      ELSE <<"software_process_block">>

\* C20, amended: process_block runs exactly one routine exactly once -- the
\* SHA-NI one if and only if the build has the std feature, the target is x86
\* or x86-64 and sha, sse2, ssse3 and sse4.1 are all detected, otherwise the
\* scalar one -- and the engine it leaves is the one that routine leaves.
CompressionDispatch ==
  "target" \in DOMAIN blk =>
    /\ Len(blk.run.calls) = 1
    /\ blk.run.calls[1] \in {"process_block_simd_x86_intrinsics", "software_process_block"}
    /\ (blk.run.calls[1] = "process_block_simd_x86_intrinsics") <=>
         /\ blk.target.std
         /\ blk.target.target_arch \in {"x86", "x86_64"}
         /\ \A f \in {"sha", "sse2", "ssse3", "sse4.1"} : f \in blk.target.features
    /\ blk.run.eng = IF blk.run.calls[1] = "software_process_block" THEN blk.soft ELSE blk.simd
    /\ blk.run.eng = process_block(blk.before, blk.target)

\* an x86-64 build with std on a machine without ssse3: the scalar routine
CompressionDispatchWitness ==
  /\ "target" \in DOMAIN blk
  /\ blk.target.std
  /\ blk.target.target_arch = "x86_64"
  /\ blk.target.features = {"sha", "sse2", "sse4.1"}
  /\ blk.run.calls = <<"software_process_block">>
  /\ blk.run.eng.h # blk.before.h

\* C21 (build-variant equivalence): on the same arguments the round! macro of
\* mod small_hash (functions round and later_round) and the one of mod
\* fast_hash (inlined) assign the same values to $d, $h and, in the later
\* form, $w; and on every state and block the scalar compression and the
\* rounds of the const path give the same state in both builds.
BuildVariantEquivalence ==
  (blk.n > 0 /\ "small" \in DOMAIN blk) =>
    /\ blk.small = blk.soft
    /\ blk.small_const = blk.const
    /\ blk.const = blk.soft.h
    /\ \A i \in 1..8 :
         LET V(j) == blk.before.h[((i + j - 2) % 8) + 1]
             W(j) == from_be_bytes(SubSeq(blk.before.buffer, (4 * (i + j)) - 3, 4 * (i + j)))
             k == software_rounds[i][9]
         IN /\ small_hash_round(V(1), V(2), V(3), V(4), V(5), V(6), V(7), V(8), k, W(0))
                 = round(V(1), V(2), V(3), V(4), V(5), V(6), V(7), V(8), k, W(0))
            /\ small_hash_later_round(V(1), V(2), V(3), V(4), V(5), V(6), V(7), V(8), k,
                                      W(0), W(1), W(2), W(3))
                 = later_round(V(1), V(2), V(3), V(4), V(5), V(6), V(7), V(8), k,
                               W(0), W(1), W(2), W(3))

\* a second block, all ones, compressed to a new h by both builds
BuildVariantWitness ==
  /\ "small" \in DOMAIN blk
  /\ blk.before.bytes_hashed = 128
  /\ blk.before.buffer = Repeat(255, 64)
  /\ blk.small.h # blk.before.h
  /\ blk.small.h = blk.soft.h
  /\ blk.small_const = blk.const

\* C22 (the assertions of from_engine): for an engine made by new, or by
\* from_midstate, and given any number of bytes -- every value 0..63 of
\* bytes_hashed mod 64 at entry -- zeroes.len() - incomplete_block_len(e) is
\* not negative and not more than zeroes.len(), incomplete_block_len(e) is 56
\* after the zero padding (line 35) and 0 after the length (line 38).
FromEngineAssertions ==
  /\ cst.op = "hash_unoptimized" =>
       /\ cst.stream.n_bytes_hashed = cst.len
       /\ cst.stream.pad_length >= 0
       /\ cst.stream.pad_length <= BLOCK_SIZE - 8
       /\ cst.stream.pad_length = (IF (cst.len % BLOCK_SIZE) <= 55
                                    THEN 55 - (cst.len % BLOCK_SIZE)
                                    ELSE IF (cst.len % BLOCK_SIZE) <= 62
                                    THEN 63 - (cst.len % BLOCK_SIZE)
                                    ELSE 56)
       /\ cst.stream.at56
       /\ incomplete_block_len(cst.stream.before_len) = 56
       /\ cst.stream.at0
       /\ incomplete_block_len(cst.stream.final) = 0
  /\ cst.op = "from_midstate" =>
       /\ cst.run.pad_length >= 0
       /\ cst.run.pad_length <= BLOCK_SIZE - 8
       /\ cst.run.at56
       /\ cst.run.at0

\* 63 bytes in the buffer at entry: 0x80 completes the block, and all 56
\* zeroes go in as the padding
FromEngineAssertionsWitness ==
  /\ cst.op = "hash_unoptimized"
  /\ cst.len = 127
  /\ cst.stream.pad_length = 56
  /\ cst.stream.at56
  /\ cst.stream.at0

\* the bufs of a trace of chunks, one after the other
RECURSIVE TraceBytes(_, _)
TraceBytes(tr, k) == IF k > Len(tr) THEN <<>> ELSE tr[k].buf \o TraceBytes(tr, k + 1)

\* C23 (const-path padding placement): for every length, with finalize = true,
\* the chunks of compute_midstate_unoptimized get 0x80 exactly once, at index
\* len mod 64 of chunk floor(len / 64), which is the last chunk but one when
\* len mod 64 >= 56; the bit length is written in the last chunk only, at
\* indices 56..63, and 0x80 is never among them; every index of buf is in
\* 0..63 and every index of bytes is below len; the chunks, one after the
\* other, are the message, 0x80, zeros and the 64-bit big-endian bit length,
\* and they are what the rounds are given.
ConstPathPadding ==
  (cst.op = "compute_midstate_unoptimized" /\ cst.finalize) =>
    LET tr == cst.trace
        n == Len(cst.trace)
        q == cst.len \div BLOCK_SIZE
        r == cst.len % BLOCK_SIZE
    IN /\ n = num_chunks(Slice(0, cst.len))
       /\ Cardinality({k \in 1..n : tr[k].delim # {}}) = 1
       /\ tr[q + 1].delim = {r}
       /\ r >= 56 => q + 2 = n
       /\ r <= 55 => q + 1 = n
       /\ \A k \in 1..n :
            /\ tr[k].length = (IF k = n THEN 56..63 ELSE {})
            /\ tr[k].delim \cap tr[k].length = {}
            /\ tr[k].buf_idx \subseteq 0..63
            /\ tr[k].bytes_idx \subseteq 0..(cst.len - 1)
            /\ tr[k].w = chunk_w(Slice(0, cst.len), k - 1, n)
       /\ TraceBytes(tr, 1)
            = Slice(0, cst.len) \o <<128>> \o Repeat(0, (n * BLOCK_SIZE) - cst.len - 9)
                \o BigEndian64(8 * cst.len)

\* 120 bytes: 0x80 goes to index 56 of the second chunk, the length to the third
ConstPathPaddingWitness ==
  /\ cst.op = "compute_midstate_unoptimized"
  /\ cst.finalize
  /\ cst.len = 120
  /\ Len(cst.trace) = 3
  /\ cst.trace[2].delim = {56}
  /\ cst.trace[2].length = {}
  /\ cst.trace[3].delim = {}
  /\ cst.trace[3].buf = Repeat(0, 62) \o <<3, 192>>

\* C24: for every engine made by new() or by from_midstate of a Midstate that
\* Midstate::new returned and fed by input calls, no input call panics or
\* leaves bytes_hashed smaller than it was, and from_engine computes
\* 8 * n_bytes_hashed within the u64 range, without a panic.
NoCounterWraparound ==
  /\ (cst.op = "input") =>
       /\ ~cst.panic
       /\ ~cst.overflow
       /\ ~u64_lt(cst.eng.bytes_hashed, cst.prev)
  /\ (cst.op = "from_engine") =>
       /\ ~cst.run.panic
       /\ ~cst.run.bit_len_overflow

\* what holds instead: below 2^61 bytes, counted after the call, every input
\* adds its length to bytes_hashed and from_engine writes 8 * n_bytes_hashed
NoCounterWraparoundBelow2to61 ==
  /\ (cst.op = "input" /\ ~cst.panic /\ u64_lt(cst.eng.bytes_hashed, <<\h2000, 0, 0, 0>>)
        /\ ~cst.overflow) =>
       cst.eng.bytes_hashed = u64_add(cst.prev, u64_from(cst.len)).val
  /\ (cst.op = "from_engine" /\ u64_lt(cst.run.n_bytes_hashed, <<\h2000, 0, 0, 0>>)) =>
       /\ ~cst.run.panic
       /\ ~cst.run.bit_len_overflow
       /\ ~cst.run.counter_overflow
       /\ u64_lt(cst.run.n_bytes_hashed, cst.run.bytes_hashed)

\* C25: an engine and a twin that has the same h, the same bytes_hashed and the
\* same live bytes at the start of buffer, and any bytes behind them, keep the
\* same h, bytes_hashed and live bytes under the same input calls, return the
\* same midstate results and end in the same digest.
StaleBytesNotObservable ==
  (cst # Idle) =>
    /\ e.h = cst.eng.h
    /\ e.bytes_hashed = cst.eng.bytes_hashed
    /\ live(e) = live(cst.eng)
    /\ (last.op = "midstate") => (last.a = last.b)
    /\ (last.op = "from_engine") =>
         /\ last.a.hash = last.b.hash
         /\ last.a.final.h = last.b.final.h
         /\ last.a.padding = last.b.padding

\* 64 bytes, the twin, 30 more bytes on both: the two buffers differ behind the
\* 0x80 that from_engine writes at byte 31, and the digests are that of the 94 bytes
StaleBytesWitness ==
  /\ cst # Idle
  /\ last.op = "from_engine"
  /\ Len(fed) = 94
  /\ \E i \in (incomplete_block_len(e) + 2)..56 : e.buffer[i] # cst.eng.buffer[i]
  /\ last.a.hash = last.b.hash
  /\ last.a.hash = hash(fed, cpu)
=============================================================================
